---------------------------- MODULE Spec2Model ----------------------------
(***************************************************************************)
(* State-machine model of the JURASSIC stage executables (retrieval,      *)
(* formod, kernel, raytrace, atmfmt, obsfmt), translated from src/src.    *)
(*                                                                         *)
(* Real numbers (C doubles) are modelled as decimal floating-point numbers *)
(* m * 10^e with a bounded number of digits, see "Decimal arithmetic".     *)
(***************************************************************************)
EXTENDS Integers, Sequences, FiniteSets, TLC

(***************************************************************************)
(* Bounds of the model (inputs are drawn from sets these definitions      *)
(* bound).                                                                 *)
(***************************************************************************)
\* largest number of profile points of an a priori atmosphere
MaxNp == 2
\* largest value of ret.conv_itmax drawn
MaxItmax == 3
\* largest value of ret.kernel_recomp drawn
MaxRecomp == 3
\* largest number of directories in a directory list
MaxDirs == 2
\* the cost function returns values in 0 .. MaxChisq
MaxChisq == 1
\* largest argc drawn is the driver's minimum plus MaxExtraArgs
MaxExtraArgs == 1
\* largest number of ray paths of an observation file
MaxNr == 2
\* significant decimal digits of a floating-point value
SigDigits == 6

(***************************************************************************)
(* Decimal arithmetic: a value is a record [m, e] standing for m * 10^e,  *)
(* normalised so that m has no trailing zero (and 0 is [m=0, e=0]).  The  *)
(* results of additions and subtractions are rounded to SigDigits         *)
(* significant digits (to nearest, ties to even), as the sums of C doubles *)
(* are rounded to 53 bits.                                                 *)
(***************************************************************************)
RECURSIVE Pow10(_)
Pow10(k) == IF k <= 0 THEN 1 ELSE 10 * Pow10(k - 1)

RECURSIVE Norm(_)
Norm(d) ==
  IF d.m = 0 THEN [m |-> 0, e |-> 0]
  ELSE IF d.m % 10 = 0 THEN Norm([m |-> d.m \div 10, e |-> d.e + 1])
  ELSE d

D(mant, ex) == Norm([m |-> mant, e |-> ex])

Zero == [m |-> 0, e |-> 0]

Abs(n) == IF n < 0 THEN 0 - n ELSE n

RECURSIVE Digits(_)
Digits(n) == IF n < 10 THEN 1 ELSE 1 + Digits(n \div 10)

MinInt(a, b) == IF a < b THEN a ELSE b
MaxInt(a, b) == IF a < b THEN b ELSE a

DNeg(a) == [m |-> 0 - a.m, e |-> a.e]

\* the position of the leading digit of a nonzero value
Order(a) == a.e + Digits(Abs(a.m))

\* the value [m, e] rounded to SigDigits significant digits
Round(d) ==
  LET n == Abs(d.m)
      k == Digits(n) - SigDigits
      q == n \div Pow10(k)
      r == n % Pow10(k)
      half == 5 * Pow10(k - 1)
      up == r > half \/ (r = half /\ q % 2 = 1)
      qq == IF up THEN q + 1 ELSE q
  IN  IF k <= 0 THEN Norm(d)
      ELSE Norm([m |-> IF d.m < 0 THEN 0 - qq ELSE qq, e |-> d.e + k])

\* the mantissa of a at exponent ew; digits below ew are cut off
Align(a, ew) ==
  IF a.e >= ew THEN a.m * Pow10(a.e - ew)
  ELSE IF a.m < 0 THEN 0 - (Abs(a.m) \div Pow10(ew - a.e))
  ELSE a.m \div Pow10(ew - a.e)

\* a + b, rounded; the sum is formed with two guard digits
DAdd(a, b) ==
  IF a.m = 0 THEN b
  ELSE IF b.m = 0 THEN a
  ELSE LET ew == MaxInt(MinInt(a.e, b.e),
                        MaxInt(Order(a), Order(b)) - (SigDigits + 2))
       IN  Round([m |-> Align(a, ew) + Align(b, ew), e |-> ew])

DSub(a, b) == DAdd(a, DNeg(b))

\* the value [m, e] rounded to SigDigits significant digits, where sticky
\* tells that nonzero digits below those of m were cut off
RoundSticky(d, sticky) ==
  LET n == Abs(d.m)
      k == Digits(n) - SigDigits
      q == n \div Pow10(k)
      r == n % Pow10(k)
      half == 5 * Pow10(k - 1)
      up == r > half \/ (r = half /\ (sticky \/ q % 2 = 1))
      qq == IF up THEN q + 1 ELSE q
  IN  IF k <= 0 THEN Norm(d)
      ELSE Norm([m |-> IF d.m < 0 THEN 0 - qq ELSE qq, e |-> d.e + k])

\* a * b, rounded (for mantissas whose exact product fits an integer)
DMul(a, b) == Round([m |-> a.m * b.m, e |-> a.e + b.e])

\* a / b for b # 0, rounded: the quotient is formed to at least two digits
\* more than SigDigits (for divisors with a mantissa of one digit)
DDiv(a, b) ==
  LET k == (SigDigits + 2) - Digits(Abs(a.m))
      num == Abs(a.m) * Pow10(k)
      q == num \div Abs(b.m)
      r == num % Abs(b.m)
      neg == (a.m < 0) # (b.m < 0)
  IN  IF a.m = 0 THEN Zero
      ELSE RoundSticky([m |-> IF neg THEN 0 - q ELSE q, e |-> a.e - k - b.e],
                       r # 0)

\* a double that is not a finite number: a quotient by zero (inf, NaN) and
\* what is computed from it
NonFinite == [nan |-> TRUE]

\* a < b for a.m > 0 and b.m > 0: first by order of magnitude, then aligned
DLessPos(a, b) ==
  LET oa == a.e + Digits(a.m)
      ob == b.e + Digits(b.m)
      e0 == MinInt(a.e, b.e)
  IN  IF oa # ob THEN oa < ob
      ELSE a.m * Pow10(a.e - e0) < b.m * Pow10(b.e - e0)

\* a < b
DLess(a, b) ==
  IF a.m > 0 /\ b.m > 0 THEN DLessPos(a, b)
  ELSE IF a.m < 0 /\ b.m < 0 THEN DLessPos(DNeg(b), DNeg(a))
  ELSE a.m < b.m

DLeq(a, b) == ~DLess(b, a)

\* #define MAX(a,b) (((a)>(b))?(a):(b))
MAX(a, b) == IF DLess(b, a) THEN a ELSE b

\* #define MIN(a,b) (((a)<(b))?(a):(b))
MIN(a, b) == IF DLess(a, b) THEN a ELSE b

(***************************************************************************)
(* Interpolation macros (jurassic.h).                                      *)
(***************************************************************************)
\* a linear interpolation that holds the value of the nearer point outside
\* the interval of x0 and x1
LINClamped(x0, y0, x1, y1, x) ==
  IF DLess(x, MIN(x0, x1)) THEN (IF DLess(x0, x1) THEN y0 ELSE y1)
  ELSE IF DLess(MAX(x0, x1), x) THEN (IF DLess(x0, x1) THEN y1 ELSE y0)
  ELSE IF DSub(x1, x0) = Zero THEN NonFinite
  ELSE DAdd(y0, DMul(DDiv(DSub(y1, y0), DSub(x1, x0)), DSub(x, x0)))

\* #define LIN(x0, y0, x1, y1, x) ((y0)+((y1)-(y0))/((x1)-(x0))*((x)-(x0)))
LIN(x0, y0, x1, y1, x) ==
  IF DSub(x1, x0) = Zero THEN NonFinite
  ELSE DAdd(y0, DMul(DDiv(DSub(y1, y0), DSub(x1, x0)), DSub(x, x0)))

\* (a)/(b) > 0 on doubles: a quotient by zero is +inf for a > 0, -inf for
\* a < 0 and NaN for a = 0 (a zero read from data is +0)
QuotPos(a, b) ==
  IF b.m = 0 THEN a.m > 0
  ELSE a.m # 0 /\ ((a.m > 0) = (b.m > 0))

\* #define LOGX(x0, y0, x1, y1, x): for (x)/(x0) > 0 && (x1)/(x0) > 0 the
\* value of (y0)+((y1)-(y0))*log((x)/(x0))/log((x1)/(x0)), named by its
\* arguments, which is not finite for x0 = 0 (inf/inf) and for x1 = x0
\* (a quotient by log(1) = 0); otherwise LIN
LOGX(x0, y0, x1, y1, x) ==
  IF QuotPos(x, x0) /\ QuotPos(x1, x0)
  THEN IF x0 = Zero \/ x1 = x0 THEN NonFinite
       ELSE [logx |-> <<x0, y0, x1, y1, x>>]
  ELSE LIN(x0, y0, x1, y1, x)

\* #define LOGY(x0, y0, x1, y1, x): for (y1)/(y0) > 0 the value of
\* (y0)*exp(log((y1)/(y0))/((x1)-(x0))*((x)-(x0))), named by its arguments;
\* for y0 = 0 the logarithm is +inf and the value is 0 * exp(-inf) = 0 if
\* (x1)-(x0) and (x)-(x0) have opposite signs, and NaN (0 * inf, or inf * 0
\* in the exponent) if not; otherwise LIN
LOGY(x0, y0, x1, y1, x) ==
  IF QuotPos(y1, y0)
  THEN IF y0 = Zero
       THEN IF DSub(x, x0) # Zero
               /\ (DLess(DSub(x1, x0), Zero) # DLess(DSub(x, x0), Zero))
            THEN Zero ELSE NonFinite
       ELSE [logy |-> <<x0, y0, x1, y1, x>>]
  ELSE LIN(x0, y0, x1, y1, x)

(***************************************************************************)
(* Quantity indices (jurassic.h).  Emitters, windows, cloud and surface   *)
(* wavenumbers are counted from 0 as in the C arrays.                     *)
(***************************************************************************)
IDXP == 0
IDXT == 1
IDXQ(c, ig) == 2 + ig
IDXK(c, iw) == 2 + c.ng + iw
IDXCLZ(c) == 2 + c.ng + c.nw
\* a cloud layer depth index that is the cloud layer height index
IDXCLDZOverlaps(c) == 2 + c.ng + c.nw
IDXCLDZ(c) == 3 + c.ng + c.nw
IDXCLK(c, icl) == 4 + c.ng + c.nw + icl
IDXSFT(c) == 4 + c.ng + c.nw + c.ncl
IDXSFEPS(c, isf) == 5 + c.ng + c.nw + c.ncl + isf

\* dimensions: cloud layer and surface layer spectral grid points, emitters,
\* spectral windows, quantities
NCL == 8
NG == 8
NSF == 8
NW == 4
NQ == 5 + NG + NW + NCL + NSF

\* the quantity indices of a control record in the order p, T, q, k, clz,
\* cldz, clk, sft, sfeps
QuantityIndices(c) ==
  <<IDXP, IDXT>> \o [j \in 1..c.ng |-> IDXQ(c, j - 1)]
  \o [j \in 1..c.nw |-> IDXK(c, j - 1)]
  \o <<IDXCLZ(c), IDXCLDZ(c)>> \o [j \in 1..c.ncl |-> IDXCLK(c, j - 1)]
  \o <<IDXSFT(c)>> \o [j \in 1..c.nsf |-> IDXSFEPS(c, j - 1)]

(***************************************************************************)
(* Atmospheres.  An atm_t value is a record with np and, for the first np *)
(* points, p and t, q[ig][ip], k[iw][ip], and the scalars clz, cldz,      *)
(* clk[icl], sft, sfeps[isf].                                             *)
(***************************************************************************)
\* what an a priori file may hold for each quantity: a value below the
\* bounds, one inside, one above (k, clz, cldz, clk have no upper bound)
AprKinds == {"low", "mid", "high"}
Pick(kind, lo, mid, hi) ==
  IF kind = "low" THEN lo ELSE IF kind = "mid" THEN mid ELSE hi

\* read_atm: the atmosphere of an input file with n points
ReadAtm(c, n, kind) ==
  LET p0 == Pick(kind, D(1, -7), D(10, 0), D(1, 5))
      t0 == Pick(kind, D(50, 0), D(250, 0), D(450, 0))
      q0 == Pick(kind, D(-5, -1), D(5, -1), D(15, -1))
      k0 == Pick(kind, D(-1, -3), D(1, -3), D(1, 0))
  IN  [np |-> n,
       p |-> [ip \in 0..n-1 |-> p0],
       t |-> [ip \in 0..n-1 |-> t0],
       q |-> [ig \in 0..c.ng-1 |-> [ip \in 0..n-1 |-> q0]],
       k |-> [iw \in 0..c.nw-1 |-> [ip \in 0..n-1 |-> k0]],
       clz |-> Pick(kind, D(-1, 0), D(10, 0), D(20, 0)),
       cldz |-> Pick(kind, D(5, -2), D(1, 0), D(2, 0)),
       clk |-> [icl \in 0..c.ncl-1 |-> k0],
       sft |-> t0,
       sfeps |-> [isf \in 0..c.nsf-1 |-> q0]]

\* the static atm_t before anything is read into it
NoAtm == [np |-> 0, p |-> <<>>, t |-> <<>>, q |-> <<>>, k |-> <<>>,
          clz |-> Zero, cldz |-> Zero, clk |-> <<>>, sft |-> Zero,
          sfeps |-> <<>>]

\* copy_atm(ctl, dest, src, 0): dest becomes a copy of src
copy_atm(src) == src

\* formod: the radiances of an atmosphere under a control record, named by
\* what they are computed from: the atmosphere, the continuum flags and the
\* ray-tracing step lengths
formod(c, a) ==
  [atm |-> a,
   ctm |-> <<c.ctm_co2, c.ctm_h2o, c.ctm_n2, c.ctm_o2>>,
   ray |-> <<c.rayds, c.raydz>>]

\* radiances no forward model run has produced (as read from the input file)
NoRad == [atm |-> NoAtm, ctm |-> <<0, 0, 0, 0>>,
          ray |-> <<[base |-> [m |-> 0, e |-> 0], pow |-> 0],
                    [base |-> [m |-> 0, e |-> 0], pow |-> 0]>>]

(***************************************************************************)
(* State vector packing.  ctl.ret is the set of tags <<iq, ip>> (ip = -1  *)
(* for a scalar quantity) that the retrieval windows and flags of the     *)
(* control file select.  atm2x walks the quantities in the fixed order    *)
(* p, T, q, k, clz, cldz, clk, sft, sfeps.                                *)
(***************************************************************************)
RECURSIVE ProfTags(_, _, _, _)
ProfTags(c, iq, ip, n) ==
  IF ip >= n THEN <<>>
  ELSE (IF <<iq, ip>> \in c.ret THEN << <<iq, ip>> >> ELSE <<>>)
       \o ProfTags(c, iq, ip + 1, n)

ScalTags(c, iq) == IF <<iq, -1>> \in c.ret THEN << <<iq, -1>> >> ELSE <<>>

RECURSIVE GasTags(_, _, _)
GasTags(c, ig, n) ==
  IF ig >= c.ng THEN <<>>
  ELSE ProfTags(c, IDXQ(c, ig), 0, n) \o GasTags(c, ig + 1, n)

RECURSIVE ExtTags(_, _, _)
ExtTags(c, iw, n) ==
  IF iw >= c.nw THEN <<>>
  ELSE ProfTags(c, IDXK(c, iw), 0, n) \o ExtTags(c, iw + 1, n)

RECURSIVE ClkTags(_, _)
ClkTags(c, icl) ==
  IF icl >= c.ncl THEN <<>>
  ELSE ScalTags(c, IDXCLK(c, icl)) \o ClkTags(c, icl + 1)

RECURSIVE SfepsTags(_, _)
SfepsTags(c, isf) ==
  IF isf >= c.nsf THEN <<>>
  ELSE ScalTags(c, IDXSFEPS(c, isf)) \o SfepsTags(c, isf + 1)

\* the tags (iqa, ipa) of the state vector elements, in order
StateTags(c, a) ==
  ProfTags(c, IDXP, 0, a.np) \o ProfTags(c, IDXT, 0, a.np)
  \o GasTags(c, 0, a.np) \o ExtTags(c, 0, a.np)
  \o ScalTags(c, IDXCLZ(c)) \o ScalTags(c, IDXCLDZ(c)) \o ClkTags(c, 0)
  \o ScalTags(c, IDXSFT(c)) \o SfepsTags(c, 0)

\* the value of the atmosphere at a tag
AtmGet(c, a, tag) ==
  LET iq == tag[1]
      ip == tag[2]
  IN  IF iq = IDXP THEN a.p[ip]
      ELSE IF iq = IDXT THEN a.t[ip]
      ELSE IF iq < IDXK(c, 0) THEN a.q[iq - IDXQ(c, 0)][ip]
      ELSE IF iq < IDXCLZ(c) THEN a.k[iq - IDXK(c, 0)][ip]
      ELSE IF iq = IDXCLZ(c) THEN a.clz
      ELSE IF iq = IDXCLDZ(c) THEN a.cldz
      ELSE IF iq < IDXSFT(c) THEN a.clk[iq - IDXCLK(c, 0)]
      ELSE IF iq = IDXSFT(c) THEN a.sft
      ELSE a.sfeps[iq - IDXSFEPS(c, 0)]

\* atm2x: the state vector of an atmosphere (its length is the return value)
atm2x(c, a) ==
  LET tags == StateTags(c, a)
  IN  [j \in 1..Len(tags) |-> AtmGet(c, a, tags[j])]

\* the element of x that belongs to a tag, or the old value if there is none
XOr(tags, x, tag, old) ==
  IF \E j \in 1..Len(tags) : tags[j] = tag
  THEN x[CHOOSE j \in 1..Len(tags) : tags[j] = tag]
  ELSE old

\* x2atm: write the state vector back; entries not retrieved are untouched
x2atm(c, x, a) ==
  LET tags == StateTags(c, a) IN
  [np |-> a.np,
   p |-> [ip \in 0..a.np-1 |-> XOr(tags, x, <<IDXP, ip>>, a.p[ip])],
   t |-> [ip \in 0..a.np-1 |-> XOr(tags, x, <<IDXT, ip>>, a.t[ip])],
   q |-> [ig \in 0..c.ng-1 |-> [ip \in 0..a.np-1 |->
            XOr(tags, x, <<IDXQ(c, ig), ip>>, a.q[ig][ip])]],
   k |-> [iw \in 0..c.nw-1 |-> [ip \in 0..a.np-1 |->
            XOr(tags, x, <<IDXK(c, iw), ip>>, a.k[iw][ip])]],
   clz |-> XOr(tags, x, <<IDXCLZ(c), -1>>, a.clz),
   cldz |-> XOr(tags, x, <<IDXCLDZ(c), -1>>, a.cldz),
   clk |-> [icl \in 0..c.ncl-1 |->
            XOr(tags, x, <<IDXCLK(c, icl), -1>>, a.clk[icl])],
   sft |-> XOr(tags, x, <<IDXSFT(c), -1>>, a.sft),
   sfeps |-> [isf \in 0..c.nsf-1 |->
            XOr(tags, x, <<IDXSFEPS(c, isf), -1>>, a.sfeps[isf])]]

(***************************************************************************)
(* The check of the atmospheric state in the trial loop of                 *)
(* optimal_estimation (retrieval.c, "Check atmospheric state...").         *)
(***************************************************************************)
\* the check without the upper bound of the temperature
CheckAtmNoUpper(c, a) ==
  [np |-> a.np,
   p |-> [ip \in 0..a.np-1 |-> MIN(MAX(a.p[ip], D(5, -7)), D(5, 4))],
   t |-> [ip \in 0..a.np-1 |-> MAX(a.t[ip], D(100, 0))],
   q |-> [ig \in 0..c.ng-1 |-> [ip \in 0..a.np-1 |->
            MIN(MAX(a.q[ig][ip], Zero), D(1, 0))]],
   k |-> [iw \in 0..c.nw-1 |-> [ip \in 0..a.np-1 |->
            MAX(a.k[iw][ip], Zero)]],
   clz |-> MAX(a.clz, Zero),
   cldz |-> MAX(a.cldz, D(1, -1)),
   clk |-> [icl \in 0..c.ncl-1 |-> MAX(a.clk[icl], Zero)],
   sft |-> MIN(MAX(a.sft, D(100, 0)), D(400, 0)),
   sfeps |-> [isf \in 0..c.nsf-1 |-> MIN(MAX(a.sfeps[isf], Zero), D(1, 0))]]

CheckAtm(c, a) ==
  [np |-> a.np,
   p |-> [ip \in 0..a.np-1 |-> MIN(MAX(a.p[ip], D(5, -7)), D(5, 4))],
   t |-> [ip \in 0..a.np-1 |-> MIN(MAX(a.t[ip], D(100, 0)), D(400, 0))],
   q |-> [ig \in 0..c.ng-1 |-> [ip \in 0..a.np-1 |->
            MIN(MAX(a.q[ig][ip], Zero), D(1, 0))]],
   k |-> [iw \in 0..c.nw-1 |-> [ip \in 0..a.np-1 |->
            MAX(a.k[iw][ip], Zero)]],
   clz |-> MAX(a.clz, Zero),
   cldz |-> MAX(a.cldz, D(1, -1)),
   clk |-> [icl \in 0..c.ncl-1 |-> MAX(a.clk[icl], Zero)],
   sft |-> MIN(MAX(a.sft, D(100, 0)), D(400, 0)),
   sfeps |-> [isf \in 0..c.nsf-1 |-> MIN(MAX(a.sfeps[isf], Zero), D(1, 0))]]

\* gsl_vector_add / gsl_vector_sub on state vectors
VecAdd(x, y) == [j \in DOMAIN x |-> DAdd(x[j], y[j])]
VecSub(x, y) == [j \in DOMAIN x |-> DSub(x[j], y[j])]


\* lmpar *= 10 and lmpar /= 10
Times10(a) == Norm([m |-> a.m, e |-> a.e + 1])
Over10(a) == Norm([m |-> a.m, e |-> a.e - 1])

(***************************************************************************)
(* Inputs.                                                                 *)
(***************************************************************************)
Progs == {"retrieval", "formod", "kernel", "raytrace", "atmfmt", "obsfmt"}

\* every count of the control file (ng, nw, ncl, nsf) is MaxCnt
MaxCnt == 1

\* the quantity indices of a control record: profiles and scalars
ProfIdx(c) == {IDXP, IDXT} \cup {IDXQ(c, ig) : ig \in 0..c.ng-1}
              \cup {IDXK(c, iw) : iw \in 0..c.nw-1}
ScalIdx(c) == {IDXCLZ(c), IDXCLDZ(c), IDXSFT(c)}
              \cup {IDXCLK(c, icl) : icl \in 0..c.ncl-1}
              \cup {IDXSFEPS(c, isf) : isf \in 0..c.nsf-1}

\* the state vectors a control file may select: nothing, one profile
\* quantity at all altitudes or at the first point only, or one scalar
RetChoices(c) ==
  {{}} \cup {{<<iq, ip>> : ip \in 0..MaxNp} : iq \in ProfIdx(c)}
       \cup {{<<iq, 0>>} : iq \in ProfIdx(c)}
       \cup {{<<iq, -1>>} : iq \in ScalIdx(c)}

\* observations: nr ray paths, their times, and the radiances of each
NoObs == [nr |-> 0, time |-> <<>>, rad |-> <<>>]

\* read_obs: an observation file with n ray paths; the time of the last one
\* differs from the time of the atmospheric profile if late
ReadObs(n, late) ==
  [nr |-> n,
   time |-> [r \in 0..n-1 |-> IF late /\ r = n - 1 THEN 1 ELSE 0],
   rad |-> [r \in 0..n-1 |-> NoRad]]

\* a step length base * 1.1^pow (the step size analysis of formod.c scales
\* the step lengths by powers of 1.1)
Geo(base, pow) == [base |-> base, pow |-> pow]

\* the static ctl_t before read_ctl
NoCtl == [ng |-> 0, nw |-> 0, ncl |-> 0, nsf |-> 0, ret |-> {},
          ctm_co2 |-> 0, ctm_h2o |-> 0, ctm_n2 |-> 0, ctm_o2 |-> 0,
          rayds |-> Geo(Zero, 0), raydz |-> Geo(Zero, 0),
          write_matrix |-> 0,
          atmfmt |-> 0, obsfmt |-> 0]

\* read_ctl: the control records a control file and command line may give
\* (retrieval windows for the retrieval, continuum flags for the others)
CtlBase ==
  [ng |-> MaxCnt, nw |-> MaxCnt, ncl |-> MaxCnt, nsf |-> MaxCnt,
   ret |-> {},
   ctm_co2 |-> 1, ctm_h2o |-> 1, ctm_n2 |-> 1, ctm_o2 |-> 1,
   rayds |-> Geo(D(10, 0), 0), raydz |-> Geo(D(1, -1), 0),
   write_matrix |-> 0,
   atmfmt |-> 1, obsfmt |-> 1]

CtlRetAll == {[CtlBase EXCEPT !.ret = r] : r \in RetChoices(CtlBase)}

\* control files that retrieve nothing, or temperature at all altitudes
CtlRetT ==
  {[CtlBase EXCEPT !.ret = r] :
     r \in {{}, {<<IDXT, ip>> : ip \in 0..MaxNp}}}

CtlFlags ==
  {[CtlBase EXCEPT !.ctm_co2 = f, !.ctm_h2o = f, !.ctm_n2 = f,
                   !.ctm_o2 = f] : f \in {0, 1}}

\* the directories of a directory list: number of profile points and kind of
\* atm_apr.tab, number of measurements of obs_meas.tab
DirInputsAll == [np : 1..MaxNp, kind : AprKinds, m : {1}]
DirInputsOne == [np : {1}, kind : {"mid"}, m : {0, 1}]

NoRet == [conv_itmax |-> 0, kernel_recomp |-> 0, conv_dmin |-> 0,
          err_ana |-> 0]

\* the matrix a and the vector b before anything is computed into them
NoA == [lmpar |-> Zero, cov |-> NoAtm]
NoB == [k |-> NoAtm, y |-> NoRad, dx |-> <<>>]

\* the result files of a directory before they are written
NoFinal == [atm |-> NoAtm, obs |-> NoRad, k |-> NoAtm, cov_ret |-> NoAtm]

\* read_ret: the retrieval control parameters
RetInputs ==
  [conv_itmax : 0..MaxItmax, kernel_recomp : 1..MaxRecomp,
   conv_dmin : {1}, err_ana : {0, 1}]

\* a single outer iteration
RetInputsOne ==
  [conv_itmax : {1}, kernel_recomp : {1}, conv_dmin : {1}, err_ana : {0, 1}]

\* the magnitude of a step of the state vector element of quantity iq
StepMag(c, iq) ==
  IF iq = IDXP THEN D(10, 0)
  ELSE IF iq = IDXT THEN D(200, 0)
  ELSE IF iq < IDXK(c, 0) THEN D(1, 0)
  ELSE IF iq < IDXCLZ(c) THEN D(1, -2)
  ELSE IF iq = IDXCLZ(c) THEN D(20, 0)
  ELSE IF iq = IDXCLDZ(c) THEN D(1, 0)
  ELSE IF iq < IDXSFT(c) THEN D(1, -2)
  ELSE IF iq = IDXSFT(c) THEN D(200, 0)
  ELSE D(1, 0)

\* the solutions x_step the linear solver may return for a state vector
StepVectors(c, a, SG) == [1..Len(StateTags(c, a)) -> SG]

StepOf(c, a, s) ==
  LET tags == StateTags(c, a)
  IN  [j \in 1..Len(tags) |->
         IF s[j] = 0 THEN Zero
         ELSE IF s[j] = 1 THEN StepMag(c, tags[j][1])
         ELSE DNeg(StepMag(c, tags[j][1]))]

(***************************************************************************)
(* State.                                                                  *)
(***************************************************************************)
VARIABLES
  prog,      \* the stage executable that runs
  argc,      \* its argument count
  status,    \* "running", "EXIT_SUCCESS", "EXIT_FAILURE" or "SIGABRT"
  pc,        \* position in the executable
  fail,      \* the failure that ended the run, "none" while there is none
  ctl,       \* the control record
  ctl_read,  \* the control record as read_ctl returned it
  ret,       \* the retrieval control parameters
  idir,      \* index of the directory being worked on
  files,     \* files written so far, as <<directory index, name>>
  atm_apr,   \* retrieval: a priori atmosphere
  m,         \* retrieval: number of measurements (obs2y of obs_meas)
  atm_i,     \* retrieval: current atmosphere
  obs_i,     \* retrieval: the radiances of the current atmosphere
  x_a, x_i, x_step, dx,
  x_before,  \* value of x_i before the current trial
  x_start,   \* value of x_i at the head of the current outer iteration
  lmpar, it, it2, chisq, chisq_old, disq,
  costs,     \* rows of costs.tab of the current directory
  k_i,       \* the atmosphere the Jacobian k_i was computed from
  cov,       \* the k_i that K^T S_eps^-1 K was computed from
  nkernel,   \* number of calls of kernel() in this directory
  ntrial,    \* number of forward-model runs of the current outer iteration
  task,      \* formod: first letter of TASK, "-" if not given
  obsref,    \* formod: OBSREF, "-" if not given
  dirmode,   \* formod, kernel: TRUE if DIRLIST names a directory list
  atm,       \* the atmosphere of formod, kernel, raytrace and atmfmt
  obs,       \* the observations of formod, kernel, raytrace and obsfmt
  ir,        \* raytrace, formod: index of the ray path being worked on
  mat_a,     \* retrieval: what the matrix a of the current trial was built from
  vec_b,     \* retrieval: what the vector b of the outer iteration was built from
  final,     \* retrieval: what the result files of the directory were written from
  fn,        \* the library function or macro called on its own, "-" if none
  arg,       \* its arguments
  res        \* its result, once it has returned

fvars == <<fn, arg, res>>
mainvars == <<fvars, prog, argc, status, pc, fail, ctl, ctl_read, ret, idir,
              files>>
oevars == <<atm_apr, m, atm_i, obs_i, x_a, x_i, x_step, dx, x_before, lmpar,
            it, it2, chisq, chisq_old, disq, costs, k_i, cov, nkernel,
            ntrial, mat_a, vec_b, final, x_start>>
lmvars == <<mat_a, vec_b, final, x_start>>
mainvars_nopc == <<fvars, prog, argc, status, fail, ctl, ctl_read, ret, idir,
                   files>>
dvars == <<task, obsref, dirmode, atm, obs, ir>>
vars == <<mainvars, oevars, dvars>>

\* positional arguments a driver needs (argc < MinArgs is rejected)
MinArgs(pr) ==
  IF pr = "retrieval" THEN 3
  ELSE IF pr \in {"atmfmt", "obsfmt"} THEN 6
  ELSE 5

InitProg(P) ==
  /\ prog \in P
  /\ argc \in 1..(MinArgs(prog) + MaxExtraArgs)
  /\ status = "running"
  /\ pc = "start"
  /\ fail = "none"
  /\ ctl = NoCtl
  /\ ctl_read = NoCtl
  /\ ret = NoRet
  /\ idir = 0
  /\ files = <<>>
  /\ atm_apr = NoAtm
  /\ m = 0
  /\ atm_i = NoAtm
  /\ obs_i = NoRad
  /\ x_a = <<>>
  /\ x_i = <<>>
  /\ x_step = <<>>
  /\ dx = <<>>
  /\ x_before = <<>>
  /\ x_start = <<>>
  /\ lmpar = Zero
  /\ it = 0
  /\ it2 = 0
  /\ chisq = 0
  /\ chisq_old = 0
  /\ disq = 0
  /\ costs = <<>>
  /\ k_i = NoAtm
  /\ cov = NoAtm
  /\ nkernel = 0
  /\ ntrial = 0
  /\ task = "-"
  /\ obsref = "-"
  /\ dirmode = FALSE
  /\ atm = NoAtm
  /\ obs = NoObs
  /\ ir = 0
  /\ mat_a = NoA
  /\ vec_b = NoB
  /\ final = NoFinal

\* no library function is called on its own
NoCall == [done |-> FALSE]

InitFor(P) ==
  /\ InitProg(P)
  /\ fn = "-"
  /\ arg = <<>>
  /\ res = NoCall

\* an ERRMSG that prints the message and ends the process with status 0
ERRMSGReturns(why) ==
  /\ status' = "EXIT_SUCCESS"
  /\ pc' = "exited"
  /\ fail' = why

\* ERRMSG: print the message and exit(EXIT_FAILURE)
ERRMSG(why) ==
  /\ status' = "EXIT_FAILURE"
  /\ pc' = "exited"
  /\ fail' = why


(***************************************************************************)
(* retrieval.c: main                                                       *)
(***************************************************************************)
\* if (argc < 3) ERRMSG("Give parameters: <ctl> <dirlist>");
RetCheckArgs ==
  /\ prog = "retrieval" /\ pc = "start"
  /\ IF argc < 3
     THEN ERRMSG("args")
     ELSE /\ pc' = "read_ctl"
          /\ UNCHANGED <<status, fail>>
  /\ UNCHANGED <<dvars, fvars, prog, argc, ctl, ctl_read, ret, idir, files, oevars>>

\* read_ctl, read_ret, read_tbl
RetReadCtl(CS, RS) ==
  /\ prog = "retrieval" /\ pc = "read_ctl"
  /\ \E c \in CS, r \in RS :
       /\ ctl' = c
       /\ ctl_read' = c
       /\ ret' = r
  /\ pc' = "open_dirlist"
  /\ UNCHANGED <<dvars, fvars, prog, argc, status, fail, idir, files, oevars>>

\* if (!(dirlist = fopen(argv[2], "r"))) ERRMSG("Cannot open directory list!");
RetOpenDirlist ==
  /\ prog = "retrieval" /\ pc = "open_dirlist"
  /\ \/ ERRMSG("open")
     \/ /\ pc' = "dir_loop"
        /\ UNCHANGED <<status, fail>>
  /\ UNCHANGED <<dvars, fvars, prog, argc, ctl, ctl_read, ret, idir, files, oevars>>

\* while (fscanf(dirlist, ...) != EOF): read_atm, read_obs, then the call of
\* optimal_estimation; after the loop return EXIT_SUCCESS
RetDirLoop(DS, nd) ==
  /\ prog = "retrieval" /\ pc = "dir_loop"
  /\ \/ /\ idir < nd
        /\ \E d \in DS :
             /\ atm_apr' = ReadAtm(ctl, d.np, d.kind)
             /\ m' = d.m
        /\ pc' = "oe_sizes"
        /\ UNCHANGED <<status>>
     \/ /\ status' = "EXIT_SUCCESS"
        /\ pc' = "exited"
        /\ UNCHANGED <<atm_apr, m>>
  /\ UNCHANGED <<dvars, fvars, prog, argc, fail, ctl, ctl_read, ret, idir,
                 files, atm_i, obs_i, x_a, x_i, x_step, dx, x_before, lmpar,
                 it, it2, chisq, chisq_old, disq, costs, k_i, cov, nkernel,
                 ntrial, lmvars>>

(***************************************************************************)
(* retrieval.c: optimal_estimation                                         *)
(***************************************************************************)

\* kernel computes the Jacobian of the forward model at atmosphere a
kernel(a) == a

\* matrix_product(k_i, sig_eps_inv, 1, cov)
matrix_product(k) == k

\* a damping that starts at 0.01
LmparInitLarger == D(1, -2)

\* lmpar = 0.001
LmparInit == D(1, -3)

\* a check of the state vector alone
CheckSizesStateOnly(mm, nn) == nn = 0

\* if (m == 0 || n == 0)
CheckSizes(mm, nn) == mm = 0 \/ nn = 0

\* double chisq, disq = 0, lmpar = 0.001; int it = 0;
\* m = obs2y(...); n = atm2x(...); if (m == 0 || n == 0) ERRMSG(...)
OESizes ==
  /\ prog = "retrieval" /\ pc = "oe_sizes"
  /\ disq' = 0
  /\ lmpar' = LmparInit
  /\ it' = 0
  /\ IF CheckSizes(m, Len(StateTags(ctl, atm_apr)))
     THEN ERRMSG("sizes")
     ELSE /\ pc' = "oe_setup"
          /\ UNCHANGED <<status, fail>>
  /\ UNCHANGED <<dvars, fvars, prog, argc, ctl, ctl_read, ret, idir, files,
                 atm_apr, m, atm_i, obs_i, x_a, x_i, x_step, dx, x_before,
                 it2, chisq, chisq_old, costs, k_i, cov, nkernel, ntrial,
                 lmvars>>

\* allocate; set the initial state; state and observation vectors; a priori
\* covariance (matrix_cov_apr.tab); measurement errors
OESetup ==
  /\ prog = "retrieval" /\ pc = "oe_setup"
  /\ atm_i' = copy_atm(atm_apr)
  /\ obs_i' = formod(ctl, copy_atm(atm_apr))
  /\ x_a' = atm2x(ctl, atm_apr)
  /\ x_i' = atm2x(ctl, copy_atm(atm_apr))
  /\ files' = Append(files, <<idir, "matrix_cov_apr.tab">>)
  /\ nkernel' = 0
  /\ pc' = "oe_costs"
  /\ UNCHANGED <<dvars, fvars, prog, argc, status, fail, ctl, ctl_read, ret, idir,
                 atm_apr, m, x_step, dx, x_before, lmpar, it, it2, chisq,
                 chisq_old, disq, costs, k_i, cov, ntrial, lmvars>>

\* a row that always carries the iteration number 0
CostsRowZero(i, c, mm, nn) == <<0, c, mm, nn>>

\* fprintf(out, "%d %g %d %d\n", it, chisq, (int) m, (int) n);
CostsRow(i, c, mm, nn) == <<i, c, mm, nn>>

\* create costs.tab; dx, dy and the cost of the a priori state; first row of
\* costs.tab; initial kernel; it = 1 of the outer loop
OECosts ==
  /\ prog = "retrieval" /\ pc = "oe_costs"
  /\ \/ /\ ERRMSG("open")
        /\ UNCHANGED <<files, dx, chisq, costs, k_i, nkernel, it>>
     \/ /\ files' = Append(files, <<idir, "costs.tab">>)
        /\ dx' = VecSub(x_i, x_a)
        /\ chisq' \in 0..MaxChisq
        /\ costs' = << CostsRow(it, chisq', m, Len(x_i)) >>
        /\ k_i' = kernel(atm_i)
        /\ nkernel' = nkernel + 1
        /\ it' = 1
        /\ pc' = "outer"
        /\ UNCHANGED <<status, fail>>
  /\ UNCHANGED <<dvars, fvars, prog, argc, ctl, ctl_read, ret, idir, atm_apr, m,
                 atm_i, obs_i, x_a, x_i, x_step, x_before, lmpar, it2,
                 chisq_old, disq, cov, ntrial, lmvars>>

\* a recomputation in every outer iteration after the first
RecompKernelAlways(i, r) == i > 1

\* the recomputation without the test it > 1
RecompKernelFirst(i, r) == i % r.kernel_recomp = 0

\* it > 1 && it % ret->kernel_recomp == 0
RecompKernel(i, r) == i > 1 /\ i % r.kernel_recomp = 0

\* it == 1 || it % ret->kernel_recomp == 0
FreshKernel(i, r) == i = 1 \/ i % r.kernel_recomp = 0

\* a right-hand side without the a priori term S_a^{-1} * dx
VectorBNoApriori(k, y, d) == [k |-> k, y |-> y, dx |-> <<>>]

\* b = K_i^T * S_eps^{-1} * dy - S_a^{-1} * dx, named by what it is computed
\* from: the kernel, the radiances y_i that dy = y_m - y_i holds, and dx
\* (y_m, S_eps^-1 and S_a^-1 are fixed once the directory is read)
VectorB(k, y, d) == [k |-> k, y |-> y, dx |-> d]

\* the head of the outer loop: chisq_old, kernel, K^T S_eps^-1 K, b
\* (for it <= conv_itmax); otherwise the loop is left and costs.tab closed
OEOuter ==
  /\ prog = "retrieval" /\ pc = "outer"
  /\ IF it <= ret.conv_itmax
     THEN /\ chisq_old' = chisq
          /\ k_i' = IF RecompKernel(it, ret) THEN kernel(atm_i) ELSE k_i
          /\ nkernel' = IF RecompKernel(it, ret) THEN nkernel + 1 ELSE nkernel
          /\ cov' = IF FreshKernel(it, ret) THEN matrix_product(k_i') ELSE cov
          /\ vec_b' = VectorB(k_i', obs_i, dx)
          /\ x_start' = x_i
          /\ it2' = 0
          /\ ntrial' = 0
          /\ pc' = "trial"
     ELSE /\ pc' = "store"
          /\ UNCHANGED <<chisq_old, k_i, nkernel, cov, vec_b, x_start, it2,
                         ntrial>>
  /\ UNCHANGED <<dvars, mainvars_nopc, atm_apr, m, atm_i, obs_i, x_a, x_i,
                 x_step, dx, x_before, lmpar, it, chisq, disq, costs, mat_a,
                 final>>


\* for (int it2 = 0; it2 < 20; it2++)
MaxTrials == 20

\* A = (1 + lmpar) * S_a^{-1} + K_i^T * S_eps^{-1} * K_i, named by what it is
\* computed from: the damping and cov (S_a^-1 is fixed)
MatrixA(l, c) == [lmpar |-> l, cov |-> c]

\* one trial up to the cost function: A, Cholesky solve, x_i += x_step,
\* copy_atm, copy_obs, x2atm, check of the atmospheric state, formod, dx, dy,
\* chisq.  gsl_linalg_cholesky_decomp reports a matrix that is not positive
\* definite through the GSL error handler, which aborts the process.
OETrial(SG) ==
  /\ prog = "retrieval" /\ pc = "trial"
  /\ mat_a' = MatrixA(lmpar, cov)
  /\ \/ /\ status' = "SIGABRT"
        /\ pc' = "exited"
        /\ fail' = "cholesky"
        /\ UNCHANGED <<x_step, x_before, x_i, atm_i, obs_i, dx, chisq, ntrial>>
     \/ /\ \E s \in StepVectors(ctl, atm_apr, SG) :
             x_step' = StepOf(ctl, atm_apr, s)
        /\ x_before' = x_i
        /\ x_i' = VecAdd(x_i, x_step')
        /\ atm_i' = CheckAtm(ctl, x2atm(ctl, x_i', copy_atm(atm_apr)))
        /\ obs_i' = formod(ctl, atm_i')
        /\ ntrial' = ntrial + 1
        /\ dx' = VecSub(x_i', x_a)
        /\ chisq' \in 0..MaxChisq
        /\ pc' = "decide"
        /\ UNCHANGED <<status, fail>>
  /\ UNCHANGED <<dvars, fvars, prog, argc, ctl, ctl_read, ret, idir, files,
                 atm_apr, m, x_a, lmpar, it, it2, chisq_old, disq, costs,
                 k_i, cov, nkernel, vec_b, final, x_start>>

\* a test that also rejects a trial of equal cost
RejectedOrEqual(new, old) == new >= old

\* if (chisq > chisq_old)
Rejected(new, old) == new > old

\* lmpar *= 10;
RejectLm(l) == Times10(l)

\* a rejection that leaves the trial step in x_i
RejectXKept(x, step) == x

\* gsl_vector_sub(x_i, x_step);
RejectX(x, step) == VecSub(x, step)

\* lmpar /= 10;
AcceptLm(l) == Over10(l)

\* modify the Levenberg-Marquardt parameter: reject the trial and go on with
\* the next one while it2 < 20, or accept it and leave the inner loop
OEDecide ==
  /\ prog = "retrieval" /\ pc = "decide"
  /\ IF Rejected(chisq, chisq_old)
     THEN /\ lmpar' = RejectLm(lmpar)
          /\ x_i' = RejectX(x_i, x_step)
          /\ it2' = it2 + 1
          /\ pc' = IF it2 + 1 < MaxTrials THEN "trial" ELSE "iter_end"
     ELSE /\ lmpar' = AcceptLm(lmpar)
          /\ pc' = "iter_end"
          /\ UNCHANGED <<x_i, it2>>
  /\ UNCHANGED <<dvars, mainvars_nopc, atm_apr, m, atm_i, obs_i, x_a, x_step,
                 dx, x_before, it, chisq, chisq_old, disq, costs, k_i, cov,
                 nkernel, ntrial, lmvars>>

\* a convergence test on the step size alone
ConvTestAny(i, r, d) == d < r.conv_dmin

\* if ((it == 1 || it % ret->kernel_recomp == 0) && disq < ret->conv_dmin)
ConvTest(i, r, d) == FreshKernel(i, r) /\ d < r.conv_dmin

\* the end of an outer iteration: row of costs.tab, normalised step size,
\* convergence test (break), otherwise it++
OEIterEnd ==
  /\ prog = "retrieval" /\ pc = "iter_end"
  /\ costs' = Append(costs, CostsRow(it, chisq, m, Len(x_i)))
  /\ disq' \in {0, ret.conv_dmin}
  /\ IF ConvTest(it, ret, disq')
     THEN /\ pc' = "store"
          /\ UNCHANGED it
     ELSE /\ it' = it + 1
          /\ pc' = "outer"
  /\ UNCHANGED <<dvars, mainvars_nopc, atm_apr, m, atm_i, obs_i, x_a, x_i,
                 x_step, dx, x_before, lmpar, it2, chisq, chisq_old, k_i, cov,
                 nkernel, ntrial, lmvars>>

\* write_atm(atm_final.tab), write_obs(obs_final.tab),
\* write_matrix(matrix_kernel.tab) in directory d
FinalFiles(d) ==
  << <<d, "atm_final.tab">>, <<d, "obs_final.tab">>,
     <<d, "matrix_kernel.tab">> >>

\* fclose(out); write_atm, write_obs, write_matrix of the results: atm_i,
\* obs_i and k_i as they are after the loop
OEStore ==
  /\ prog = "retrieval" /\ pc = "store"
  /\ files' = files \o FinalFiles(idir)
  /\ final' = [final EXCEPT !.atm = atm_i, !.obs = obs_i, !.k = k_i]
  /\ pc' = IF ret.err_ana # 0 THEN "err_ana" ELSE "finalize"
  /\ UNCHANGED <<dvars, fvars, prog, argc, status, fail, ctl, ctl_read, ret, idir,
                 atm_apr, m, atm_i, obs_i, x_a, x_i, x_step, dx, x_before,
                 lmpar, it, it2, chisq, chisq_old, disq, costs, k_i, cov,
                 nkernel, ntrial, mat_a, vec_b, x_start>>

\* the order of the error analysis with the gain written before the
\* correlation matrix
ErrAnaFilesSwapped(d) ==
  << <<d, "matrix_cov_ret.tab">>, <<d, "write_stddev total">>,
     <<d, "matrix_gain.tab">>, <<d, "matrix_corr.tab">>,
     <<d, "write_stddev noise">>, <<d, "write_stddev formod">>,
     <<d, "matrix_avk.tab">> >>

\* the files of the error analysis in directory d, in the order written
ErrAnaFiles(d) ==
  << <<d, "matrix_cov_ret.tab">>, <<d, "write_stddev total">>,
     <<d, "matrix_corr.tab">>, <<d, "matrix_gain.tab">>,
     <<d, "write_stddev noise">>, <<d, "write_stddev formod">>,
     <<d, "matrix_avk.tab">> >>

\* if (ret->err_ana): retrieval covariance (from matrix_product(k_i, ...)),
\* correlation, gain, errors, averaging kernel
OEErrAna ==
  /\ prog = "retrieval" /\ pc = "err_ana"
  /\ files' = files \o ErrAnaFiles(idir)
  /\ final' = [final EXCEPT !.cov_ret = matrix_product(k_i)]
  /\ pc' = "finalize"
  /\ UNCHANGED <<dvars, fvars, prog, argc, status, fail, ctl, ctl_read, ret, idir,
                 atm_apr, m, atm_i, obs_i, x_a, x_i, x_step, dx, x_before,
                 lmpar, it, it2, chisq, chisq_old, disq, costs, k_i, cov,
                 nkernel, ntrial, mat_a, vec_b, x_start>>

\* free the matrices and vectors and return to main, where the loop goes on
\* with the next directory: the locals of optimal_estimation are gone (the
\* static atm_apr, atm_i and obs_i of main keep their values), and costs
\* stands for the costs.tab of the next directory
OEFinalize ==
  /\ prog = "retrieval" /\ pc = "finalize"
  /\ x_a' = <<>>
  /\ x_i' = <<>>
  /\ x_step' = <<>>
  /\ dx' = <<>>
  /\ x_before' = <<>>
  /\ x_start' = <<>>
  /\ k_i' = NoAtm
  /\ cov' = NoAtm
  /\ mat_a' = NoA
  /\ vec_b' = NoB
  /\ final' = NoFinal
  /\ lmpar' = Zero
  /\ it' = 0
  /\ it2' = 0
  /\ chisq' = 0
  /\ chisq_old' = 0
  /\ disq' = 0
  /\ nkernel' = 0
  /\ ntrial' = 0
  /\ costs' = <<>>
  /\ idir' = idir + 1
  /\ pc' = "dir_loop"
  /\ UNCHANGED <<dvars, fvars, prog, argc, status, fail, ctl, ctl_read, ret, files,
                 atm_apr, m, atm_i, obs_i>>

OENext(SG) ==
  \/ OESizes \/ OESetup \/ OECosts \/ OEOuter \/ OETrial(SG) \/ OEDecide
  \/ OEIterEnd \/ OEStore \/ OEErrAna \/ OEFinalize

(***************************************************************************)
(* Directory lists of formod and kernel.                                   *)
(***************************************************************************)
\* the directories (or the single working directory) of formod and kernel:
\* points and kind of the atmosphere file, ray paths of the observation file
DrvDirs == [np : {1}, kind : {"mid"}, nr : 0..MaxNr, late : BOOLEAN]

\* call_formod or call_kernel returns: to the head of the directory loop, or,
\* for a single calculation, to the end of main (free(tbl); return
\* EXIT_SUCCESS)
CallReturn ==
  IF dirmode
  THEN /\ idir' = idir + 1
       /\ pc' = "dir_loop"
       /\ UNCHANGED status
  ELSE /\ status' = "EXIT_SUCCESS"
       /\ pc' = "exited"
       /\ UNCHANGED idir

\* every ray path of the observation gets the radiances r
AllRays(o, r) == [o EXCEPT !.rad = [i \in 0..o.nr-1 |-> r]]

(***************************************************************************)
(* formod.c: main                                                          *)
(***************************************************************************)
\* the first letter of TASK, in lower case; "-" is the default
Tasks == {"p", "c", "t", "s", "-"}

\* if (argc < 5) ERRMSG("Give parameters: <ctl> <obs> <atm> <rad>");
FmCheckArgs ==
  /\ prog = "formod" /\ pc = "start"
  /\ IF argc < 5
     THEN ERRMSG("args")
     ELSE /\ pc' = "read_ctl"
          /\ UNCHANGED <<status, fail>>
  /\ UNCHANGED <<fvars, prog, argc, ctl, ctl_read, ret, idir, files, oevars, dvars>>

\* read_ctl, read_tbl, scan_ctl of TASK, DIRLIST and OBSREF
FmReadCtl(CS) ==
  /\ prog = "formod" /\ pc = "read_ctl"
  /\ \E c \in CS :
       /\ ctl' = c
       /\ ctl_read' = c
  /\ task' \in Tasks
  /\ dirmode' \in BOOLEAN
  /\ obsref' \in {"-", "obs_ref.tab"}
  /\ pc' = "dispatch"
  /\ UNCHANGED <<fvars, prog, argc, status, fail, ret, idir, files, oevars, atm, obs,
                 ir>>

\* if (dirlist[0] == '-') call_formod(..., NULL, ...); else open the
\* directory list: if (!(in = fopen(dirlist, "r"))) ERRMSG(...)
FmDispatch ==
  /\ prog = "formod" /\ pc = "dispatch"
  /\ IF ~dirmode
     THEN /\ pc' = "call"
          /\ UNCHANGED <<status, fail>>
     ELSE \/ ERRMSG("open")
          \/ /\ pc' = "dir_loop"
             /\ UNCHANGED <<status, fail>>
  /\ UNCHANGED <<fvars, prog, argc, ctl, ctl_read, ret, idir, files, oevars, dvars>>

\* while (fscanf(in, "%4999s", wrkdir) != EOF) call_formod(...); then
\* fclose(in); free(tbl); return EXIT_SUCCESS
FmDirLoop(nd) ==
  /\ prog = "formod" /\ pc = "dir_loop"
  /\ \/ /\ idir < nd
        /\ pc' = "call"
        /\ UNCHANGED status
     \/ /\ status' = "EXIT_SUCCESS"
        /\ pc' = "exited"
  /\ UNCHANGED <<fvars, prog, argc, fail, ctl, ctl_read, ret, idir, files, oevars,
                 dvars>>

(***************************************************************************)
(* formod.c: call_formod                                                   *)
(***************************************************************************)
\* read_atm of the forward model driver: the points of the file have the
\* times 0, 1, 0, ... (time stands for time, z, lon and lat of a point), and
\* pressure and temperature differ from point to point
ReadAtmTimes(c, n, kind) ==
  LET a == ReadAtm(c, n, kind)
  IN  [time |-> [ip \in 0..n-1 |-> ip % 2]] @@
      [a EXCEPT !.p = [ip \in 0..n-1 |-> DAdd(a.p[ip], D(ip, 0))],
                !.t = [ip \in 0..n-1 |-> DAdd(a.t[ip], D(ip, 0))]]

\* for (ip = ...; ip < atm.np; ip++) if (atm.time[ip] == obs.time[ir]):
\* the points ip, ip+1, ... of a that have time tm, in the order of the loop
RECURSIVE PointsAt(_, _, _)
PointsAt(a, tm, ip) ==
  IF ip >= a.np THEN <<>>
  ELSE (IF a.time[ip] = tm THEN <<ip>> ELSE <<>>) \o PointsAt(a, tm, ip + 1)

\* a selection that takes the first a.np points whatever their time
SelectProfileAll(c, a, tm) ==
  [np |-> a.np, time |-> a.time, p |-> a.p, t |-> a.t, q |-> a.q, k |-> a.k,
   clz |-> Zero,
   cldz |-> Zero,
   clk |-> [icl \in 0..c.ncl-1 |-> Zero],
   sft |-> Zero,
   sfeps |-> [isf \in 0..c.nsf-1 |-> Zero]]

\* the profile of atmosphere a at time tm as the multiple-profile task
\* collects it in the static atm2: time and the profile quantities of the
\* points with that time are copied, the cloud and surface fields of the
\* static stay zero
SelectProfile(c, a, tm) ==
  LET sel == PointsAt(a, tm, 0)
      n == Len(sel)
  IN  [np |-> n,
       time |-> [ip \in 0..n-1 |-> a.time[sel[ip + 1]]],
       p |-> [ip \in 0..n-1 |-> a.p[sel[ip + 1]]],
       t |-> [ip \in 0..n-1 |-> a.t[sel[ip + 1]]],
       q |-> [ig \in 0..c.ng-1 |-> [ip \in 0..n-1 |-> a.q[ig][sel[ip + 1]]]],
       k |-> [iw \in 0..c.nw-1 |-> [ip \in 0..n-1 |-> a.k[iw][sel[ip + 1]]]],
       clz |-> Zero,
       cldz |-> Zero,
       clk |-> [icl \in 0..c.ncl-1 |-> Zero],
       sft |-> Zero,
       sfeps |-> [isf \in 0..c.nsf-1 |-> Zero]]

\* a loop that calls the forward model for every ray path
ProfileRadAlways(c, a, o, r) == formod(c, SelectProfile(c, a, o.time[r]))

\* the radiances of ray path r after the multiple-profile loop: those of the
\* profile of its time if there is one (atm2.np > 0), else as read
ProfileRad(c, a, o, r) ==
  LET atm2 == SelectProfile(c, a, o.time[r])
  IN  IF atm2.np > 0 THEN formod(c, atm2) ELSE o.rad[r]

\* an atm2 that is not copied from atm again for each emitter: its extinction
\* is zero, and after the run of emitter 0 every emitter is zero
OnlyEmitterAccumulated(c, a, ig) ==
  [a EXCEPT !.k = [iw \in 0..c.nw-1 |-> [ip \in 0..a.np-1 |-> Zero]],
            !.q = [ig2 \in 0..c.ng-1 |->
                     IF ig2 = ig /\ ig = 0 THEN a.q[ig2]
                     ELSE [ip \in 0..a.np-1 |-> Zero]]]

\* copy of a with extinction zero and every emitter but ig zero
OnlyEmitter(c, a, ig) ==
  [a EXCEPT !.k = [iw \in 0..c.nw-1 |-> [ip \in 0..a.np-1 |-> Zero]],
            !.q = [ig2 \in 0..c.ng-1 |->
                     IF ig2 = ig THEN a.q[ig2]
                     ELSE [ip \in 0..a.np-1 |-> Zero]]]

\* copy of a with all volume mixing ratios zero, extinction kept
OnlyExtinction(c, a) ==
  [a EXCEPT !.q = [ig \in 0..c.ng-1 |-> [ip \in 0..a.np-1 |-> Zero]]]

\* ctl->ctm_co2 = 0; ctl->ctm_h2o = 0; ctl->ctm_n2 = 0; ctl->ctm_o2 = 0;
ContinuaOff(c) ==
  [c EXCEPT !.ctm_co2 = 0, !.ctm_h2o = 0, !.ctm_n2 = 0, !.ctm_o2 = 0]

\* the files of the emitter loop, one for each emitter ig
EmitterFiles(c, a, d) ==
  [j \in 1..c.ng |-> <<d, "rad.emitter", formod(c, OnlyEmitter(c, a, j - 1))>>]

\* for (double dz = 0.01; dz <= 2; dz *= 1.1): the last dz is 0.01 * 1.1^55
LastDzPow == 55

\* for (double ds = 0.1; ds <= 50; ds *= 1.1): the last ds is 0.1 * 1.1^65
LastDsPow == 65

\* the step lengths the step size loops leave in the control record
StepSizes(c) ==
  [c EXCEPT !.rayds = Geo(D(1, -1), LastDsPow),
            !.raydz = Geo(D(1, -2), LastDzPow)]

\* atm2 of the timing loop: temperature shifted by dtemp (the pressure and
\* mixing ratio factors are drawn as 1)
Perturbed(a, dtemp) ==
  [a EXCEPT !.t = [ip \in 0..a.np-1 |-> DAdd(a.t[ip], dtemp)]]

\* read_atm, read_obs, and the choice of the task
FmCall(DS) ==
  /\ prog = "formod" /\ pc = "call"
  /\ \E d \in DS :
       /\ atm' = ReadAtmTimes(ctl, d.np, d.kind)
       /\ obs' = ReadObs(d.nr, d.late)
  /\ pc' = IF task = "p" THEN "profile" ELSE "single"
  /\ UNCHANGED <<mainvars_nopc, oevars, task, obsref, dirmode, ir>>

\* a store that writes the radiances of one ray path to all of them
SaveRadAll(o, r, v) == [o EXCEPT !.rad = [i \in 0..o.nr-1 |-> v]]

\* obs.rad[id][ir] = obs2.rad[id][0]; obs.tau[id][ir] = obs2.tau[id][0];
\* for all channels id (a radiance value stands for both)
SaveRad(o, r, v) == [o EXCEPT !.rad[r] = v]

\* compute multiple profiles: one pass of the loop over the ray paths (atm2,
\* obs2, formod, save radiance data), and after the loop write_obs
FmProfile ==
  /\ prog = "formod" /\ pc = "profile"
  /\ IF ir < obs.nr
     THEN /\ obs' = SaveRad(obs, ir, ProfileRad(ctl, atm, obs, ir))
          /\ ir' = ir + 1
          /\ UNCHANGED <<files, status, pc, idir>>
     ELSE /\ files' = Append(files, <<idir, "rad", obs.rad>>)
          /\ ir' = 0
          /\ CallReturn
          /\ UNCHANGED obs
  /\ UNCHANGED <<fvars, prog, argc, fail, ctl, ctl_read, ret, oevars, task,
                 obsref, dirmode, atm>>

\* compute a single profile: formod, write_obs, evaluation against OBSREF
\* (read_obs, compute_rel_errors, printf), then the task
FmSingle ==
  /\ prog = "formod" /\ pc = "single"
  /\ obs' = AllRays(obs, formod(ctl, atm))
  /\ files' = Append(files, <<idir, "rad", obs'.rad>>)
  /\ IF task = "c" THEN pc' = "contrib" /\ UNCHANGED <<status, idir>>
     ELSE IF task = "t" THEN pc' = "timing" /\ UNCHANGED <<status, idir>>
     ELSE IF task = "s" THEN pc' = "stepsize" /\ UNCHANGED <<status, idir>>
     ELSE CallReturn
  /\ UNCHANGED <<fvars, prog, argc, fail, ctl, ctl_read, ret, oevars, task, obsref,
                 dirmode, atm, ir>>

\* compute contributions of emitters: continua off, one run and file for
\* each emitter, one for the extinction
FmContrib ==
  /\ prog = "formod" /\ pc = "contrib"
  /\ ctl' = ContinuaOff(ctl)
  /\ obs' = AllRays(obs, formod(ctl', OnlyExtinction(ctl', atm)))
  /\ files' = files \o EmitterFiles(ctl', atm, idir)
                    \o << <<idir, "rad.EXTINCT", obs'.rad>> >>
  /\ CallReturn
  /\ UNCHANGED <<fvars, prog, argc, fail, ctl_read, ret, oevars, task, obsref,
                 dirmode, atm, ir>>

\* measure CPU-time: runs on random atmospheres until 10 s are used
FmTiming ==
  /\ prog = "formod" /\ pc = "timing"
  /\ \E dtemp \in {D(-10, 0), D(10, 0)} :
       obs' = AllRays(obs, formod(ctl, Perturbed(atm, dtemp)))
  /\ CallReturn
  /\ UNCHANGED <<fvars, prog, argc, fail, ctl, ctl_read, ret, files, oevars, task,
                 obsref, dirmode, atm, ir>>

\* analyze impact of step size: reference run with rayds = 0.1 and
\* raydz = 0.01, then the loops over dz and ds
FmStepSize ==
  /\ prog = "formod" /\ pc = "stepsize"
  /\ ctl' = StepSizes(ctl)
  /\ obs' = AllRays(obs, formod(ctl', atm))
  /\ CallReturn
  /\ UNCHANGED <<fvars, prog, argc, fail, ctl_read, ret, files, oevars, task,
                 obsref, dirmode, atm, ir>>

\* the forward model driver on control files with one or two emitters and on
\* atmosphere files of up to MaxNp + 1 points
NextFormod ==
  \/ FmCheckArgs
  \/ FmReadCtl(CtlFlags \cup {[c EXCEPT !.ng = MaxCnt + 1] : c \in CtlFlags})
  \/ FmDispatch \/ FmDirLoop(MaxDirs)
  \/ FmCall([np : 1..MaxNp + 1, kind : {"mid"}, nr : 0..MaxNr,
             late : BOOLEAN])
  \/ FmProfile \/ FmSingle \/ FmContrib \/ FmTiming \/ FmStepSize

(***************************************************************************)
(* kernel.c                                                                *)
(***************************************************************************)
\* control files of the kernel driver: retrieval windows and WRITE_MATRIX
CtlKernel == {[c EXCEPT !.write_matrix = w] : c \in CtlRetT, w \in {0, 1}}

\* if (argc < 5) ERRMSG("Give parameters: <ctl> <obs> <atm> <kernel>");
KnCheckArgs ==
  /\ prog = "kernel" /\ pc = "start"
  /\ IF argc < 5
     THEN ERRMSG("args")
     ELSE /\ pc' = "read_ctl"
          /\ UNCHANGED <<status, fail>>
  /\ UNCHANGED <<fvars, prog, argc, ctl, ctl_read, ret, idir, files, oevars, dvars>>

\* read_ctl, read_tbl
KnReadCtl(CS) ==
  /\ prog = "kernel" /\ pc = "read_ctl"
  /\ \E c \in CS :
       /\ ctl' = c
       /\ ctl_read' = c
  /\ pc' = "set_flags"
  /\ UNCHANGED <<fvars, prog, argc, status, fail, ret, idir, files, oevars, dvars>>

\* scan_ctl of DIRLIST; ctl.write_matrix = 1;
KnSetFlags ==
  /\ prog = "kernel" /\ pc = "set_flags"
  /\ dirmode' \in BOOLEAN
  /\ ctl' = [ctl EXCEPT !.write_matrix = 1]
  /\ pc' = "dispatch"
  /\ UNCHANGED <<fvars, prog, argc, status, fail, ctl_read, ret, idir, files,
                 oevars, task, obsref, atm, obs, ir>>

\* if (dirlist[0] == '-') call_kernel(..., NULL, ...); else open the
\* directory list: if (!(in = fopen(dirlist, "r"))) ERRMSG(...)
KnDispatch ==
  /\ prog = "kernel" /\ pc = "dispatch"
  /\ IF ~dirmode
     THEN /\ pc' = "call"
          /\ UNCHANGED <<status, fail>>
     ELSE \/ ERRMSG("open")
          \/ /\ pc' = "dir_loop"
             /\ UNCHANGED <<status, fail>>
  /\ UNCHANGED <<fvars, prog, argc, ctl, ctl_read, ret, idir, files, oevars, dvars>>

\* while (fscanf(in, "%4999s", wrkdir) != EOF) call_kernel(...); then
\* fclose(in); free(tbl); return EXIT_SUCCESS
KnDirLoop(nd) ==
  /\ prog = "kernel" /\ pc = "dir_loop"
  /\ \/ /\ idir < nd
        /\ pc' = "call"
        /\ UNCHANGED status
     \/ /\ status' = "EXIT_SUCCESS"
        /\ pc' = "exited"
  /\ UNCHANGED <<fvars, prog, argc, fail, ctl, ctl_read, ret, idir, files, oevars,
                 dvars>>

\* if (n == 0) ERRMSG(...); if (m == 0) ERRMSG(...);
KnCheckSizes(mm, nn) == nn = 0 \/ mm = 0

\* call_kernel: read_obs, read_atm, sizes n and m and their checks, kernel,
\* write_matrix
KnCall(DS) ==
  /\ prog = "kernel" /\ pc = "call"
  /\ \E d \in DS :
       /\ obs' = ReadObs(d.nr, d.late)
       /\ atm' = ReadAtm(ctl, d.np, d.kind)
  /\ IF KnCheckSizes(obs'.nr, Len(StateTags(ctl, atm')))
     THEN /\ ERRMSG("sizes")
          /\ UNCHANGED <<files, idir>>
     ELSE /\ files' = Append(files, <<idir, "kernel", kernel(atm')>>)
          /\ CallReturn
          /\ UNCHANGED fail
  /\ UNCHANGED <<fvars, prog, argc, ctl, ctl_read, ret, oevars, task, obsref,
                 dirmode, ir>>

NextKernel ==
  \/ KnCheckArgs \/ KnReadCtl(CtlKernel) \/ KnSetFlags \/ KnDispatch
  \/ KnDirLoop(MaxDirs) \/ KnCall(DrvDirs)

(***************************************************************************)
(* raytrace.c                                                              *)
(***************************************************************************)
\* if (argc < 5) ERRMSG("Give parameters: <ctl> <obs> <atm> <raytrace.tab>");
RtCheckArgs ==
  /\ prog = "raytrace" /\ pc = "start"
  /\ IF argc < 5
     THEN ERRMSG("args")
     ELSE /\ pc' = "read_ctl"
          /\ UNCHANGED <<status, fail>>
  /\ UNCHANGED <<fvars, prog, argc, ctl, ctl_read, ret, idir, files, oevars, dvars>>

\* read_ctl, scan_ctl of LOSBASE, read_obs, read_atm
RtReadCtl(CS, DS) ==
  /\ prog = "raytrace" /\ pc = "read_ctl"
  /\ \E c \in CS :
       /\ ctl' = c
       /\ ctl_read' = c
  /\ \E d \in DS :
       /\ obs' = ReadObs(d.nr, d.late)
       /\ atm' = ReadAtm(ctl', d.np, d.kind)
  /\ pc' = "create"
  /\ UNCHANGED <<fvars, prog, argc, status, fail, ret, idir, files, oevars, task,
                 obsref, dirmode, ir>>

\* if (!(out = fopen(argv[4], "w"))) ERRMSG("Cannot create file!");
\* then the header
RtCreate ==
  /\ prog = "raytrace" /\ pc = "create"
  /\ \/ /\ ERRMSG("open")
        /\ UNCHANGED <<files, ir>>
     \/ /\ files' = Append(files, <<0, "raytrace.tab">>)
        /\ ir' = 0
        /\ pc' = "rays"
        /\ UNCHANGED <<status, fail>>
  /\ UNCHANGED <<fvars, prog, argc, ctl, ctl_read, ret, idir, oevars, task, obsref,
                 dirmode, atm, obs>>

\* raytrace (declared in jurassic.h): the line of sight of a ray path, with n
\* points; segment lengths and column densities differ from point to point
LosOf(c, n) ==
  [np |-> n,
   ds |-> [ip \in 0..n-1 |-> D(ip + 1, 0)],
   u |-> [ip \in 0..n-1 |-> [ig \in 0..c.ng-1 |-> D(2 * ip + ig + 1, 0)]]]

\* for (int ip = ...; ip < los.np; ip++) s += f[ip];
RECURSIVE SumFrom(_, _, _, _)
SumFrom(f, ip, n, s) ==
  IF ip >= n THEN s ELSE SumFrom(f, ip + 1, n, DAdd(s, f[ip]))

\* a summary row whose sums leave out the first LOS point
SummaryRowFromSecond(c, los, r) ==
  <<r, "summary", SumFrom(los.ds, 1, los.np, Zero),
    [ig \in 0..c.ng-1 |->
       SumFrom([ip \in 0..los.np-1 |-> los.u[ip][ig]], 1, los.np, Zero)]>>

\* double s = 0; u[ig] = 0; the sums over the LOS points; the summary row of
\* ray path r: ray path index, path length, column density of each emitter
SummaryRow(c, los, r) ==
  <<r, "summary", SumFrom(los.ds, 0, los.np, Zero),
    [ig \in 0..c.ng-1 |->
       SumFrom([ip \in 0..los.np-1 |-> los.u[ip][ig]], 0, los.np, Zero)]>>

\* for (int ir = 0; ir < obs.nr; ir++): raytrace, the LOS file
\* (if (!(out2 = fopen(filename, "w"))) ERRMSG(...)) with one row per LOS
\* point, the summary row; after the loop fclose(out); return EXIT_SUCCESS
RtRay ==
  /\ prog = "raytrace" /\ pc = "rays"
  /\ IF ir < obs.nr
     THEN \/ /\ ERRMSG("open")
             /\ UNCHANGED <<files, ir>>
          \/ /\ \E n \in 1..MaxNp :
                  files' = files \o << <<ir, "los.tab", LosOf(ctl, n)>>,
                                      SummaryRow(ctl, LosOf(ctl, n), ir) >>
             /\ ir' = ir + 1
             /\ UNCHANGED <<status, pc, fail>>
     ELSE /\ status' = "EXIT_SUCCESS"
          /\ pc' = "exited"
          /\ UNCHANGED <<files, ir, fail>>
  /\ UNCHANGED <<fvars, prog, argc, ctl, ctl_read, ret, idir, oevars, task, obsref,
                 dirmode, atm, obs>>

NextRaytrace ==
  \/ RtCheckArgs \/ RtReadCtl(CtlFlags, DrvDirs) \/ RtCreate \/ RtRay

(***************************************************************************)
(* atmfmt.c and obsfmt.c                                                   *)
(***************************************************************************)
\* the formats atoi(argv[3]) and atoi(argv[5]) may give
Formats == {1, 2}

\* if (argc < 6) ERRMSG("Give parameters: <ctl> <atm_in> <atmfmt_in> ...");
AtmfmtCheckArgs ==
  /\ prog = "atmfmt" /\ pc = "start"
  /\ IF argc < 6
     THEN ERRMSG("args")
     ELSE /\ pc' = "read_ctl"
          /\ UNCHANGED <<status, fail>>
  /\ UNCHANGED <<fvars, prog, argc, ctl, ctl_read, ret, idir, files, oevars, dvars>>

\* read_ctl
AtmfmtReadCtl(CS) ==
  /\ prog = "atmfmt" /\ pc = "read_ctl"
  /\ \E c \in CS :
       /\ ctl' = c
       /\ ctl_read' = c
  /\ pc' = "read"
  /\ UNCHANGED <<fvars, prog, argc, status, fail, ret, idir, files, oevars, dvars>>

\* ctl.atmfmt = atoi(argv[3]); read_atm
AtmfmtRead(DS) ==
  /\ prog = "atmfmt" /\ pc = "read"
  /\ \E f \in Formats : ctl' = [ctl EXCEPT !.atmfmt = f]
  /\ \E d \in DS : atm' = ReadAtm(ctl', d.np, d.kind)
  /\ pc' = "write"
  /\ UNCHANGED <<fvars, prog, argc, status, fail, ctl_read, ret, idir, files,
                 oevars, task, obsref, dirmode, obs, ir>>

\* ctl.atmfmt = atoi(argv[5]); write_atm; return EXIT_SUCCESS
AtmfmtWrite ==
  /\ prog = "atmfmt" /\ pc = "write"
  /\ \E f \in Formats : ctl' = [ctl EXCEPT !.atmfmt = f]
  /\ files' = Append(files, <<0, "atm_out", ctl'.atmfmt, atm>>)
  /\ status' = "EXIT_SUCCESS"
  /\ pc' = "exited"
  /\ UNCHANGED <<fvars, prog, argc, fail, ctl_read, ret, idir, oevars, dvars>>

\* if (argc < 6) ERRMSG("Give parameters: <ctl> <obs_in> <obsfmt_in> ...");
ObsfmtCheckArgs ==
  /\ prog = "obsfmt" /\ pc = "start"
  /\ IF argc < 6
     THEN ERRMSG("args")
     ELSE /\ pc' = "read_ctl"
          /\ UNCHANGED <<status, fail>>
  /\ UNCHANGED <<fvars, prog, argc, ctl, ctl_read, ret, idir, files, oevars, dvars>>

\* read_ctl
ObsfmtReadCtl(CS) ==
  /\ prog = "obsfmt" /\ pc = "read_ctl"
  /\ \E c \in CS :
       /\ ctl' = c
       /\ ctl_read' = c
  /\ pc' = "read"
  /\ UNCHANGED <<fvars, prog, argc, status, fail, ret, idir, files, oevars, dvars>>

\* ctl.obsfmt = atoi(argv[3]); read_obs
ObsfmtRead(DS) ==
  /\ prog = "obsfmt" /\ pc = "read"
  /\ \E f \in Formats : ctl' = [ctl EXCEPT !.obsfmt = f]
  /\ \E d \in DS : obs' = ReadObs(d.nr, d.late)
  /\ pc' = "write"
  /\ UNCHANGED <<fvars, prog, argc, status, fail, ctl_read, ret, idir, files,
                 oevars, task, obsref, dirmode, atm, ir>>

\* ctl.obsfmt = atoi(argv[5]); write_obs; return EXIT_SUCCESS
ObsfmtWrite ==
  /\ prog = "obsfmt" /\ pc = "write"
  /\ \E f \in Formats : ctl' = [ctl EXCEPT !.obsfmt = f]
  /\ files' = Append(files, <<0, "obs_out", ctl'.obsfmt, obs>>)
  /\ status' = "EXIT_SUCCESS"
  /\ pc' = "exited"
  /\ UNCHANGED <<fvars, prog, argc, fail, ctl_read, ret, idir, oevars, dvars>>

NextFmt ==
  \/ AtmfmtCheckArgs \/ AtmfmtReadCtl(CtlFlags) \/ AtmfmtRead(DrvDirs)
  \/ AtmfmtWrite
  \/ ObsfmtCheckArgs \/ ObsfmtReadCtl(CtlFlags) \/ ObsfmtRead(DrvDirs)
  \/ ObsfmtWrite

(***************************************************************************)
(* formod.c: compute_rel_errors                                            *)
(***************************************************************************)
\* the loop over the ray paths r .. nr-1 of one channel with radiances test
\* and reference radiances ref: sum, sum2, minre, maxre and n
RECURSIVE RelErrSums(_, _, _, _, _)
RelErrSums(test, ref, r, nr, acc) ==
  IF r >= nr THEN acc
  ELSE IF ref[r] = Zero THEN RelErrSums(test, ref, r + 1, nr, acc)
  ELSE LET err == DDiv(DMul(D(100, 0), DSub(test[r], ref[r])), ref[r])
       IN  RelErrSums(test, ref, r + 1, nr,
             [sum |-> DAdd(acc.sum, err),
              sum2 |-> DAdd(acc.sum2, DMul(err, err)),
              minre |-> IF DLess(err, acc.minre) THEN err ELSE acc.minre,
              maxre |-> IF DLess(acc.maxre, err) THEN err ELSE acc.maxre,
              n |-> acc.n + 1])

\* compute_rel_errors: mre, sdre, minre and maxre of each channel.  sum / n
\* and sum2 / n are quotients of doubles, 0.0 / 0.0 = NaN for n = 0; the
\* square root is named by what it is taken of
compute_rel_errors(nd, obs_test, obs_ref) ==
  [id \in 0..nd-1 |->
     LET acc == RelErrSums(obs_test.rad[id], obs_ref.rad[id], 0, obs_test.nr,
                           [sum |-> Zero, sum2 |-> Zero, minre |-> D(1, 9),
                            maxre |-> D(-1, 9), n |-> 0])
         mre == IF acc.n = 0 THEN NonFinite ELSE DDiv(acc.sum, D(acc.n, 0))
     IN  [mre |-> mre,
          sdre |-> IF acc.n = 0 THEN NonFinite
                   ELSE [sqrt |-> [sum2 |-> acc.sum2, n |-> acc.n,
                                   mre |-> mre]],
          minre |-> acc.minre,
          maxre |-> acc.maxre]]

(***************************************************************************)
(* Library code called on its own: the interpolation macros, the quantity  *)
(* indices and compute_rel_errors, each applied once to arguments drawn    *)
(* from bounded sets.                                                      *)
(***************************************************************************)
\* the arguments of the interpolation macros are the doubles -MaxArg, ...,
\* MaxArg
MaxArg == 2

\* observations of nd channels and n ray paths with radiances 1 or 2, and
\* reference observations with radiances 0, 1 or 2
RelErrInputs(nd, n) ==
  [nr : {n},
   test : [0..nd-1 -> [0..n-1 -> {D(1, 0), D(2, 0)}]],
   ref : [0..nd-1 -> [0..n-1 -> {Zero, D(1, 0), D(2, 0)}]]]

InitLib ==
  /\ InitProg({"-"})
  /\ argc = 1
  /\ fn \in {"LIN", "LOGX", "LOGY", "IDX", "compute_rel_errors"}
  /\ arg \in IF fn \in {"LIN", "LOGX", "LOGY"}
              THEN [1..5 -> {D(i, 0) : i \in -MaxArg..MaxArg}]
              ELSE IF fn = "IDX"
              THEN [ng : 0..NG, nw : 0..NW, ncl : 0..NCL, nsf : 0..NSF]
              ELSE UNION {RelErrInputs(MaxCnt, n) : n \in 0..MaxNr}
  /\ res = NoCall

CallLIN ==
  /\ fn = "LIN" /\ ~res.done
  /\ res' = [done |-> TRUE,
             val |-> LIN(arg[1], arg[2], arg[3], arg[4], arg[5])]
  /\ UNCHANGED <<fn, arg, prog, argc, status, pc, fail, ctl, ctl_read, ret,
                 idir, files, oevars, dvars>>

CallLOGX ==
  /\ fn = "LOGX" /\ ~res.done
  /\ res' = [done |-> TRUE,
             val |-> LOGX(arg[1], arg[2], arg[3], arg[4], arg[5])]
  /\ UNCHANGED <<fn, arg, prog, argc, status, pc, fail, ctl, ctl_read, ret,
                 idir, files, oevars, dvars>>

CallLOGY ==
  /\ fn = "LOGY" /\ ~res.done
  /\ res' = [done |-> TRUE,
             val |-> LOGY(arg[1], arg[2], arg[3], arg[4], arg[5])]
  /\ UNCHANGED <<fn, arg, prog, argc, status, pc, fail, ctl, ctl_read, ret,
                 idir, files, oevars, dvars>>

\* the quantity index macros under a control record with the counts arg
CallIDX ==
  /\ fn = "IDX" /\ ~res.done
  /\ res' = [done |-> TRUE, val |-> QuantityIndices(arg)]
  /\ UNCHANGED <<fn, arg, prog, argc, status, pc, fail, ctl, ctl_read, ret,
                 idir, files, oevars, dvars>>

\* compute_rel_errors(ctl, &obs, &obs2, mre, sdre, minre, maxre)
CallRelErrors ==
  /\ fn = "compute_rel_errors" /\ ~res.done
  /\ res' = [done |-> TRUE,
             val |-> compute_rel_errors(MaxCnt, [nr |-> arg.nr,
                                                 rad |-> arg.test],
                                        [nr |-> arg.nr, rad |-> arg.ref])]
  /\ UNCHANGED <<fn, arg, prog, argc, status, pc, fail, ctl, ctl_read, ret,
                 idir, files, oevars, dvars>>

NextLib == CallLIN \/ CallLOGX \/ CallLOGY \/ CallIDX \/ CallRelErrors

SpecLib == InitLib /\ [][NextLib]_vars

(***************************************************************************)
(* Specifications.                                                         *)
(***************************************************************************)
InitRet == InitFor({"retrieval"})

\* the retrieval on directory lists of one-point atmospheres, for every
\* choice of the retrieval control parameters
NextRet ==
  \/ RetCheckArgs \/ RetReadCtl(CtlRetT, RetInputs) \/ RetOpenDirlist
  \/ RetDirLoop(DirInputsOne, MaxDirs) \/ OENext({1})

SpecRet == InitRet /\ [][NextRet]_vars

\* the retrieval of one directory with a single outer iteration, for every
\* state vector and every kind of a priori atmosphere
NextAtm ==
  \/ RetCheckArgs \/ RetReadCtl(CtlRetAll, RetInputsOne) \/ RetOpenDirlist
  \/ RetDirLoop(DirInputsAll, 1) \/ OENext({-1, 0, 1})

SpecAtm == InitRet /\ [][NextAtm]_vars

\* the retrieval of one directory whose a priori values lie below the bounds,
\* with nothing, the pressure of the first point or the temperature
\* retrieved, for every choice of the retrieval control parameters
NextLow ==
  \/ RetCheckArgs
  \/ RetReadCtl({[CtlBase EXCEPT !.ret = r] :
                   r \in {{}, {<<IDXP, 0>>}, {<<IDXT, 0>>}}}, RetInputs)
  \/ RetOpenDirlist
  \/ RetDirLoop([np : {1}, kind : {"low"}, m : {1}], 1)
  \/ OENext({1})

SpecLow == InitRet /\ [][NextLow]_vars

\* every stage executable
Init == InitFor(Progs)

\* the retrieval with a single outer iteration
NextRetOne ==
  \/ RetCheckArgs \/ RetReadCtl(CtlRetT, RetInputsOne) \/ RetOpenDirlist
  \/ RetDirLoop(DirInputsOne, MaxDirs) \/ OENext({1})

Next == NextRetOne \/ NextFormod \/ NextKernel \/ NextRaytrace \/ NextFmt

Spec == Init /\ [][Next]_vars

\* the forward model driver alone
InitFormod == InitFor({"formod"})

SpecFormod == InitFormod /\ [][NextFormod]_vars

(***************************************************************************)
(* Properties.                                                             *)
(***************************************************************************)
\* the positions inside the Levenberg-Marquardt loop
LoopPcs == {"outer", "trial", "decide", "iter_end"}

\* directory d has the file called name
HasFile(d, name) == \E i \in 1..Len(files) : files[i] = <<d, name>>

\* C1 as stated: the Levenberg-Marquardt loop runs at most conv_itmax outer
\* iterations with at most 20 forward-model runs each, it is left only for
\* the final outputs, early only through the convergence test, and the final
\* outputs are written then.
C1_LoopEndsByTestOrCap ==
  [][/\ pc \in LoopPcs =>
          /\ pc' \in LoopPcs \cup {"store"}
          /\ it' <= ret.conv_itmax + 1
          /\ ntrial' <= MaxTrials
          /\ pc' = "store" =>
               \/ pc = "outer" /\ it > ret.conv_itmax
               \/ pc = "iter_end" /\ ConvTest(it, ret, disq')
     /\ pc = "store" => /\ HasFile(idir, "atm_final.tab")'
                        /\ HasFile(idir, "obs_final.tab")'
                        /\ HasFile(idir, "matrix_kernel.tab")']_vars

\* every element of x comes back from adding and subtracting the step s
ExactTrip(x, s) ==
  \A j \in DOMAIN x : DSub(DAdd(x[j], s[j]), s[j]) = x[j]

\* C2 (amended): when a trial step increases chi^2, x_step is subtracted from
\* x_i again, which restores the value before the trial unless a sum was
\* rounded, lambda is multiplied by 10, and the next trial follows unless
\* this was the 20th of the outer iteration; a trial of equal chi^2 is not
\* taken back.
C2_RejectOnIncrease ==
  [][pc = "decide" =>
       /\ ntrial <= MaxTrials
       /\ chisq > chisq_old =>
            /\ x_i' = VecSub(x_i, x_step)
            /\ ExactTrip(x_before, x_step) => x_i' = x_before
            /\ lmpar' = Times10(lmpar)
            /\ it2' = it2 + 1
            /\ pc' = IF ntrial < MaxTrials THEN "trial" ELSE "iter_end"
       /\ chisq = chisq_old => x_i' = x_i /\ it2' = it2]_vars

\* C2 witness: the 20th trial of an outer iteration was rejected and x_i is
\* back at its value before the trial
C2_Witness ==
  /\ pc = "iter_end" /\ it2 = MaxTrials /\ ntrial = MaxTrials
  /\ x_i = x_before
  /\ \E j \in DOMAIN x_step : x_step[j] # Zero

\* C2 as stated: whenever a trial step does not decrease chi^2, x_i is
\* restored to its value before the trial, lambda is multiplied by 10 and
\* the trial is retried while fewer than 20 trials were made.
C2_RestoreWhenNotDecreased ==
  [][(pc = "decide" /\ ~(chisq < chisq_old)) =>
       /\ x_i' = x_before
       /\ lmpar' = Times10(lmpar)
       /\ ntrial < MaxTrials => pc' = "trial"]_vars

\* half of l
Halved(l) == Norm([m |-> 5 * l.m, e |-> l.e - 1])

\* C3 (amended): a trial step is accepted exactly when chi^2 did not increase
\* relative to chisq_old, which keeps the value of the start of the outer
\* iteration; on acceptance lambda is divided by 10 and the inner loop left.
C3_AcceptUnlessIncrease ==
  [][/\ pc = "decide" =>
          /\ (it2' = it2 /\ x_i' = x_i /\ pc' = "iter_end")
               <=> ~(chisq > chisq_old)
          /\ ~(chisq > chisq_old) => lmpar' = Over10(lmpar)
     /\ pc \in {"trial", "decide"} => chisq_old' = chisq_old
     /\ pc = "outer" => chisq_old' = chisq \/ pc' = "store"]_vars

\* C3 witness: a trial of equal chi^2 was accepted as the first trial of the
\* first outer iteration, and lambda is a tenth of its initial value 0.001
C3_Witness ==
  /\ pc = "iter_end" /\ it = 1 /\ it2 = 0 /\ ntrial = 1
  /\ chisq = chisq_old
  /\ lmpar = D(1, -4)

\* C3 as stated: a trial step is accepted exactly when chi^2 decreased, and
\* on acceptance lambda is halved and the inner loop left.
C3_AcceptWhenDecreasedHalve ==
  [][pc = "decide" =>
       /\ (it2' = it2 /\ pc' = "iter_end") <=> chisq < chisq_old
       /\ chisq < chisq_old => lmpar' = Halved(lmpar)]_vars

C5_KernelRecomputation ==
  [][/\ (pc = "outer" /\ it <= ret.conv_itmax) =>
          IF it = 1 \/ it % ret.kernel_recomp = 0
          THEN /\ k_i' = kernel(atm_i)
               /\ cov' = matrix_product(k_i')
               /\ nkernel' = IF it = 1 THEN nkernel ELSE nkernel + 1
          ELSE /\ k_i' = k_i
               /\ cov' = cov
               /\ nkernel' = nkernel
     /\ pc = "oe_costs" => nkernel' = nkernel + 1 \/ pc' = "exited"
     /\ pc \in {"trial", "decide", "iter_end"} =>
          k_i' = k_i /\ cov' = cov /\ nkernel' = nkernel]_vars

\* C5 witness: outer iteration 2 runs with the kernel of iteration 1, which
\* is not the kernel of the current atmosphere
C5_Witness ==
  /\ pc = "trial" /\ it = 2 /\ ntrial = 0
  /\ ret.kernel_recomp = 3
  /\ nkernel = 1
  /\ k_i = kernel(atm_apr)
  /\ k_i # kernel(atm_i)

\* the bounds of the quantities of an atmosphere
InBounds(c, a) ==
  /\ \A ip \in 0..a.np-1 :
       /\ DLeq(D(5, -7), a.p[ip]) /\ DLeq(a.p[ip], D(5, 4))
       /\ DLeq(D(100, 0), a.t[ip]) /\ DLeq(a.t[ip], D(400, 0))
       /\ \A ig \in 0..c.ng-1 :
            DLeq(Zero, a.q[ig][ip]) /\ DLeq(a.q[ig][ip], D(1, 0))
       /\ \A iw \in 0..c.nw-1 : DLeq(Zero, a.k[iw][ip])
  /\ DLeq(Zero, a.clz)
  /\ DLeq(D(1, -1), a.cldz)
  /\ \A icl \in 0..c.ncl-1 : DLeq(Zero, a.clk[icl])
  /\ DLeq(D(100, 0), a.sft) /\ DLeq(a.sft, D(400, 0))
  /\ \A isf \in 0..c.nsf-1 :
       DLeq(Zero, a.sfeps[isf]) /\ DLeq(a.sfeps[isf], D(1, 0))

\* C6: the atmosphere of every forward-model run of the inner loop has
\* p in [5e-7, 5e4], T in [100, 400], q in [0, 1], k >= 0 at all its points,
\* and clz >= 0, cldz >= 0.1, clk >= 0, sft in [100, 400], sfeps in [0, 1].
C6_TrialAtmosphereInBounds ==
  (prog = "retrieval" /\ pc = "decide") =>
    /\ obs_i = formod(ctl, atm_i)
    /\ obs_i.atm.np = atm_apr.np
    /\ InBounds(ctl, obs_i.atm)

\* C6 witness: a trial on a two-point atmosphere whose state vector, written
\* to the atmosphere, is outside the bounds
C6_Witness ==
  /\ pc = "decide" /\ atm_apr.np = 2
  /\ ~InBounds(ctl, x2atm(ctl, x_i, atm_apr))
  /\ InBounds(ctl, atm_i)

\* C7 as stated: after a failed Cholesky decomposition the run goes on (with
\* the next directory), and the directory has its final results.
C7_CholeskyEndsDirectoryOnly ==
  fail = "cholesky" =>
    /\ status = "running"
    /\ HasFile(idir, "atm_final.tab")

\* the files of directory d that C8 names, in the order written
Outputs(d) ==
  LET names == {"costs.tab", "atm_final.tab", "obs_final.tab",
                "matrix_kernel.tab", "matrix_cov_ret.tab", "matrix_corr.tab",
                "matrix_gain.tab", "matrix_avk.tab"}
      Named(f) == f[1] = d /\ f[2] \in names
      sel == SelectSeq(files, Named)
  IN  [i \in 1..Len(sel) |-> sel[i][2]]

C9_ControlRecordUnchanged ==
  pc \notin {"start", "read_ctl"} => ctl = ctl_read

C11_EmptyProblemAborts ==
  [][/\ (prog = "retrieval" /\ pc = "oe_sizes"
          /\ (m = 0 \/ Len(atm2x(ctl, atm_apr)) = 0)) =>
            /\ status' = "EXIT_FAILURE" /\ pc' = "exited" /\ fail' = "sizes"
            /\ files' = files
            /\ \A i \in 1..Len(files) : files[i][1] # idir
            /\ obs_i' = obs_i /\ atm_i' = atm_i /\ nkernel' = 0
            /\ k_i' = NoAtm /\ cov' = NoAtm /\ mat_a' = NoA /\ vec_b' = NoB
            /\ x_a' = <<>> /\ x_i' = <<>> /\ x_step' = <<>> /\ dx' = <<>>
     /\ (prog = "kernel" /\ pc = "call"
          /\ (obs'.nr = 0 \/ Len(atm2x(ctl, atm')) = 0)) =>
            /\ status' = "EXIT_FAILURE" /\ pc' = "exited" /\ fail' = "sizes"
            /\ files' = files
            /\ \A i \in 1..Len(files) : files[i][1] # idir]_vars

\* C11 witness: the second directory of a retrieval has a state vector but no
\* measurements, and the run has ended with the error after the first
\* directory was completed
C11_Witness ==
  /\ prog = "retrieval" /\ fail = "sizes" /\ idir = 1
  /\ m = 0 /\ Len(atm2x(ctl, atm_apr)) > 0
  /\ HasFile(0, "atm_final.tab") /\ ~HasFile(1, "matrix_cov_apr.tab")

\* C12: in every directory of the directory list the damping is 0.001 from
\* the entry of optimal_estimation up to the first trial, whose matrix A is
\* built with 0.001, whatever damping the directory before ended with.
C12_InitialDamping ==
  /\ (prog = "retrieval" /\ pc \in {"oe_setup", "oe_costs"}) =>
       lmpar = D(1, -3)
  /\ (prog = "retrieval" /\ pc \in {"outer", "trial"} /\ it = 1
       /\ ntrial = 0) => lmpar = D(1, -3)
  /\ (prog = "retrieval" /\ pc = "decide" /\ it = 1 /\ ntrial = 1) =>
       mat_a.lmpar = D(1, -3)

\* C12 witness: the first trial of the second directory was made with
\* damping 0.001 after the first directory ran at least one outer iteration
C12_Witness ==
  /\ prog = "retrieval" /\ idir = 1 /\ pc = "decide"
  /\ it = 1 /\ ntrial = 1 /\ ret.conv_itmax >= 1
  /\ mat_a.lmpar = D(1, -3)
  /\ HasFile(0, "atm_final.tab")

\* the rows of costs.tab are numbered 0, 1, 2, ... and carry m and n
ConsecutiveRows(rows, mm, nn) ==
  \A j \in 1..Len(rows) :
    rows[j][1] = j - 1 /\ rows[j][3] = mm /\ rows[j][4] = nn

\* C19: costs.tab holds the row of iteration 0 followed by one row for each
\* executed outer iteration, numbered 1, 2, ... without gaps, every row with
\* the same m and n: while outer iteration it runs the rows 0 .. it-1 are
\* there, and after the loop there is one row more than iterations executed.
C19_CostsRows ==
  (prog = "retrieval"
   /\ (pc \in LoopPcs \cup {"store", "err_ana", "finalize"}
       \/ fail = "cholesky")) =>
    /\ Len(costs) >= 1
    /\ ConsecutiveRows(costs, m, Len(atm2x(ctl, atm_apr)))
    /\ (pc \in LoopPcs \/ fail = "cholesky") => Len(costs) = it
    /\ pc \in {"store", "err_ana", "finalize"} =>
         Len(costs) = 1 + (IF it > ret.conv_itmax THEN ret.conv_itmax ELSE it)

\* C19 witness: the loop was left by the convergence test in the third outer
\* iteration and costs.tab has the rows 0, 1, 2, 3
C19_Witness ==
  /\ prog = "retrieval" /\ pc = "store"
  /\ ret.conv_itmax = 3 /\ it = 3
  /\ Len(costs) = 4 /\ costs[4][1] = 3

\* C20 as stated: every trial builds A from the current lambda and cov, b is
\* computed once at the head of the outer iteration from K, y_m - y_i and
\* x_i - x_a, and the trials of the inner loop leave S_a^-1 (the a priori
\* atmosphere), K^T S_eps^-1 K, K, b, x_a and y_m (the measurements) alone.
C20_StepSolvesSystem ==
  [][/\ (pc = "trial" /\ status' = "running") =>
          mat_a' = [lmpar |-> lmpar, cov |-> cov]
     /\ (pc = "outer" /\ pc' = "trial") =>
          vec_b' = [k |-> k_i', y |-> obs_i, dx |-> VecSub(x_i, x_a)]
     /\ pc \in {"trial", "decide"} =>
          /\ vec_b' = vec_b /\ k_i' = k_i /\ cov' = cov
          /\ x_a' = x_a /\ m' = m /\ atm_apr' = atm_apr]_vars

\* C18: a pass of the ray path loop of the profile task stores the result of
\* the forward model for ray path ir (if the atmosphere has a profile of its
\* time) in the radiances of ray path ir, and leaves the radiances of every
\* other ray path, the geometry and the atmosphere as they are.
C18_ProfileWritesOwnRay ==
  [][(prog = "formod" /\ pc = "profile" /\ ir < obs.nr) =>
       LET atm2 == SelectProfile(ctl, atm, obs.time[ir])
       IN  /\ \A r \in 0..obs.nr-1 : r # ir => obs'.rad[r] = obs.rad[r]
           /\ obs'.rad[ir] = IF atm2.np > 0 THEN formod(ctl, atm2)
                             ELSE obs.rad[ir]
           /\ obs'.nr = obs.nr /\ obs'.time = obs.time
           /\ atm' = atm /\ files' = files /\ ir' = ir + 1]_vars

\* C18 witness: of two ray paths the first has its radiances and the second
\* is still as read
C18_Witness ==
  /\ prog = "formod" /\ pc = "profile" /\ task = "p"
  /\ obs.nr = 2 /\ ir = 1
  /\ obs.rad[0] = formod(ctl, SelectProfile(ctl, atm, 0))
  /\ obs.rad[1] = NoRad

\* C13 as stated: for a channel without a reference sample (no ray path, or
\* every reference radiance zero) compute_rel_errors returns a sentinel for
\* the mean and the standard deviation, not the result of a division by
\* n = 0.
C13_SentinelWithoutSamples ==
  (fn = "compute_rel_errors" /\ res.done) =>
    \A id \in DOMAIN res.val :
      (\A r \in 0..arg.nr-1 : arg.ref[id][r] = Zero) =>
        res.val[id].mre # NonFinite /\ res.val[id].sdre # NonFinite

\* C14 as stated: LOGX gives the value of LIN whenever x0, x1 or x is not
\* positive, and a value other than that of LIN only when all three are
\* positive.
C14_LogxFallsBack ==
  (fn = "LOGX" /\ res.done) =>
    LET lin == LIN(arg[1], arg[2], arg[3], arg[4], arg[5])
        pos == arg[1].m > 0 /\ arg[3].m > 0 /\ arg[5].m > 0
    IN  /\ ~pos => res.val = lin
        /\ res.val # lin => pos

\* C15 as stated: LOGY gives the value of LIN whenever y0 or y1 is not
\* positive, and a value other than that of LIN only when both are positive.
C15_LogyFallsBack ==
  (fn = "LOGY" /\ res.done) =>
    LET lin == LIN(arg[1], arg[2], arg[3], arg[4], arg[5])
        pos == arg[2].m > 0 /\ arg[4].m > 0
    IN  /\ ~pos => res.val = lin
        /\ res.val # lin => pos

\* the integer an argument of an interpolation macro stands for
ArgInt(d) == d.m * Pow10(d.e)

C17_IndicesCoverInOrder ==
  (fn = "IDX" /\ res.done) =>
    LET q == res.val
        last == 4 + arg.ng + arg.nw + arg.ncl + arg.nsf
    IN  /\ Len(q) = last + 1
        /\ \A i, j \in 1..Len(q) : i # j => q[i] # q[j]
        /\ {q[j] : j \in 1..Len(q)} = 0..last
        /\ \A j \in 1..Len(q) : q[j] = j - 1
        /\ \A j \in 1..Len(q) : q[j] < NQ
        /\ q[1] = IDXP /\ q[2] = IDXT
        /\ q[3 + arg.ng + arg.nw] = IDXCLZ(arg)
        /\ q[4 + arg.ng + arg.nw] = IDXCLDZ(arg)
        /\ q[5 + arg.ng + arg.nw + arg.ncl] = IDXSFT(arg)

\* C17 witness: with every count at its dimension the last index is NQ - 1
C17_Witness ==
  /\ fn = "IDX" /\ res.done
  /\ arg = [ng |-> NG, nw |-> NW, ncl |-> NCL, nsf |-> NSF]
  /\ res.val[Len(res.val)] = NQ - 1
  /\ NQ = 33

\* C23 as stated: the chi^2 values of the rows of costs.tab are
\* non-increasing from each row to the next.
C23_CostsNonIncreasing ==
  \A j \in 1..Len(costs)-1 : costs[j + 1][2] <= costs[j][2]

\* C22 (amended): if all 20 trials of an outer iteration are rejected, x_i is
\* taken back by subtracting x_step again, which gives its value at the start
\* of the iteration unless a sum was rounded, while atm_i, obs_i, dx and
\* chi^2 keep the values of the 20th rejected trial: the next outer iteration
\* takes that chi^2 as chisq_old and builds b from those radiances and that
\* dx, and after the last iteration atm_final and obs_final are written from
\* the rejected trial state.
C22_RejectedTrialStateKept ==
  [][/\ (pc = "decide" /\ Rejected(chisq, chisq_old)) =>
          /\ x_i' = VecSub(VecAdd(x_before, x_step), x_step)
          /\ (x_before = x_start /\ ExactTrip(x_before, x_step)) =>
               x_i' = x_start
          /\ UNCHANGED <<atm_i, obs_i, dx, chisq, chisq_old, x_start>>
          /\ atm_i = CheckAtm(ctl, x2atm(ctl, VecAdd(x_before, x_step),
                                         copy_atm(atm_apr)))
          /\ obs_i = formod(ctl, atm_i)
          /\ dx = VecSub(VecAdd(x_before, x_step), x_a)
     /\ (pc = "iter_end" /\ it2 = MaxTrials) =>
          /\ Rejected(chisq, chisq_old)
          /\ UNCHANGED <<x_i, atm_i, obs_i, dx, chisq>>
     /\ (pc = "outer" /\ it2 = MaxTrials) =>
          /\ UNCHANGED <<x_i, atm_i, obs_i, dx, chisq>>
          /\ pc' = "trial" => /\ chisq_old' = chisq
                              /\ vec_b'.y = obs_i /\ vec_b'.dx = dx
                              /\ x_start' = x_i
     /\ (pc = "store" /\ it2 = MaxTrials) =>
          final'.atm = atm_i /\ final'.obs = obs_i]_vars

\* C22 witness: atm_final and obs_final were written after 20 rejected trials
\* of the last outer iteration; x_i is back at the a priori value and the
\* atmosphere written is that of the rejected step
C22_Witness ==
  /\ pc = "finalize" /\ it2 = MaxTrials /\ it = 2
  /\ chisq > chisq_old
  /\ x_i = x_a /\ dx # VecSub(x_i, x_a)
  /\ final.atm = atm_i /\ final.atm # copy_atm(atm_apr)
  /\ final.obs = formod(ctl, atm_i)

\* C22 as stated: after 20 rejected trials x_i is its value at the start of
\* the iteration, and atm_i, obs_i, dx and chi^2 are those of the 20th
\* rejected trial.
C22_RestoredToIterationStart ==
  (pc = "iter_end" /\ it2 = MaxTrials) =>
    /\ x_i = x_start
    /\ chisq > chisq_old
    /\ atm_i = CheckAtm(ctl, x2atm(ctl, VecAdd(x_before, x_step),
                                   copy_atm(atm_apr)))
    /\ obs_i = formod(ctl, atm_i)
    /\ dx = VecSub(VecAdd(x_before, x_step), x_a)

\* C24: the check of the atmospheric state of a trial changes atm_i only.
\* x_i keeps the value x_i + x_step, dx is x_i - x_a of that value, and the
\* next step starts from it (or from it minus x_step after a rejection),
\* while the forward model runs on the atmosphere after the check; the check
\* brings every quantity of atm_i into its bounds, whether or not it is part
\* of the state vector.
C24_ClampChangesAtmOnly ==
  [][/\ (pc = "trial" /\ pc' = "decide") =>
          /\ x_i' = VecAdd(x_i, x_step')
          /\ dx' = VecSub(VecAdd(x_i, x_step'), x_a)
          /\ atm_i' = CheckAtm(ctl, x2atm(ctl, x_i', copy_atm(atm_apr)))
          /\ InBounds(ctl, atm_i')
          /\ obs_i' = formod(ctl, atm_i')
          /\ x_before' = x_i
     /\ (pc = "decide" /\ ~Rejected(chisq, chisq_old)) => UNCHANGED <<x_i, dx>>
     /\ pc = "iter_end" => UNCHANGED <<x_i, dx>>
     /\ (pc = "outer" /\ pc' = "trial") =>
          UNCHANGED <<x_i, dx>> /\ x_start' = x_i /\ vec_b'.dx = dx]_vars

\* C24 witness: the third outer iteration starts from a retrieved temperature
\* above its bound (x_i = 450, dx = 400) while the forward model ran on the
\* atmosphere with the bound (400), and the pressure, which is not retrieved,
\* was raised from its a priori value to its lower bound
C24_Witness ==
  /\ pc = "trial" /\ it = 3 /\ ntrial = 0
  /\ ctl.ret = {<<IDXT, 0>>}
  /\ x_i = <<D(450, 0)>> /\ x_start = x_i /\ vec_b.dx = <<D(400, 0)>>
  /\ atm_i.t[0] = D(400, 0)
  /\ obs_i = formod(ctl, atm_i)
  /\ atm_apr.p[0] = D(1, -7) /\ atm_i.p[0] = D(5, -7)

RECURSIVE IntSum(_, _)
IntSum(f, n) == IF n = 0 THEN 0 ELSE IntSum(f, n - 1) + ArgInt(f[n - 1])

\* C30: the raytrace driver works on the ray paths in the order 0 .. nr-1;
\* after ir of them the files written are the summary file and then, for
\* each ray path r < ir in turn, one LOS file of r with one row per LOS point
\* followed by one summary row of r, whose path length is the sum of ds over
\* the LOS points of r and whose column density of each emitter is the sum
\* of u over those points, both counted from zero for r.
C30_RaySummaries ==
  (prog = "raytrace" /\ pc \in {"rays", "exited"} /\ fail # "args"
   /\ Len(files) > 0) =>
    /\ ir <= obs.nr
    /\ Len(files) = 1 + 2 * ir
    /\ files[1] = <<0, "raytrace.tab">>
    /\ \A r \in 0..ir-1 :
         LET f == files[2 + 2 * r]
             row == files[3 + 2 * r]
             los == f[3]
         IN  /\ f[1] = r /\ f[2] = "los.tab"
             /\ los.np >= 1
             /\ DOMAIN los.ds = 0..los.np-1
             /\ row[1] = r /\ row[2] = "summary"
             /\ row[3] = D(IntSum(los.ds, los.np), 0)
             /\ \A ig \in 0..ctl.ng-1 :
                  row[4][ig] =
                    D(IntSum([ip \in 0..los.np-1 |-> los.u[ip][ig]],
                             los.np), 0)
    /\ (status = "EXIT_SUCCESS") => ir = obs.nr

\* C30 witness: two ray paths are done, the first with a two-point line of
\* sight (path length 1 + 2) and the second with a one-point line of sight,
\* whose path length 1 does not continue the sum of the first
C30_Witness ==
  /\ prog = "raytrace" /\ status = "EXIT_SUCCESS" /\ ir = 2
  /\ files[2][3].np = 2 /\ files[3][3] = D(3, 0)
  /\ files[4][3].np = 1 /\ files[5][3] = D(1, 0)
  /\ files[5][1] = 1

\* C27: in the profile task, the atmosphere the forward model gets for ray
\* path ir holds exactly the points of the input atmosphere whose time is
\* obs.time[ir], in their order, with time, p, T, every q and every k
\* copied; its cloud layer and surface values are not those of the input
\* atmosphere (they are the zeros of the static atm2).
C27_ProfileAtmosphere ==
  [][(pc = "profile" /\ ir < obs.nr) =>
       LET tm == obs.time[ir]
           S == {ip \in 0..atm.np-1 : atm.time[ip] = tm}
           idx(j) == CHOOSE ip \in S : Cardinality({i \in S : i < ip}) = j
           a2 == obs'.rad[ir].atm
       IN  S # {} =>
             /\ obs'.rad[ir] = formod(ctl, a2)
             /\ a2.np = Cardinality(S)
             /\ \A j \in 0..a2.np-1 :
                  /\ a2.time[j] = atm.time[idx(j)]
                  /\ a2.p[j] = atm.p[idx(j)]
                  /\ a2.t[j] = atm.t[idx(j)]
                  /\ \A ig \in 0..ctl.ng-1 : a2.q[ig][j] = atm.q[ig][idx(j)]
                  /\ \A iw \in 0..ctl.nw-1 : a2.k[iw][j] = atm.k[iw][idx(j)]
             /\ a2.clz = Zero /\ a2.cldz = Zero /\ a2.sft = Zero
             /\ \A icl \in 0..ctl.ncl-1 : a2.clk[icl] = Zero
             /\ \A isf \in 0..ctl.nsf-1 : a2.sfeps[isf] = Zero]_vars

\* C27 witness: of a three-point atmosphere with the times 0, 1, 0 the first
\* ray path (time 0) got the first and the third point, and not the cloud
\* layer height of the input atmosphere
C27_Witness ==
  /\ prog = "formod" /\ pc = "profile" /\ ir = 1
  /\ atm.np = 3 /\ obs.time[0] = 0
  /\ obs.rad[0].atm.np = 2
  /\ obs.rad[0].atm.t[0] = atm.t[0] /\ obs.rad[0].atm.t[1] = atm.t[2]
  /\ atm.t[0] # atm.t[2] /\ atm.t[1] # atm.t[2]
  /\ atm.clz # Zero /\ obs.rad[0].atm.clz = Zero

\* C28: in the profile task, for a ray path whose time no point of the
\* atmosphere has the forward model is not called and the radiances of the
\* ray path stay as they were read; after the loop the output file is
\* written once, with all nr ray paths, those radiances among them.
C28_UnmatchedRayKept ==
  [][/\ (pc = "profile" /\ ir < obs.nr
         /\ \A ip \in 0..atm.np-1 : atm.time[ip] # obs.time[ir]) =>
          /\ obs.rad[ir] = NoRad
          /\ obs'.rad[ir] = obs.rad[ir]
          /\ obs'.rad[ir] # formod(ctl, SelectProfile(ctl, atm, obs.time[ir]))
          /\ files' = files
     /\ (pc = "profile" /\ ir >= obs.nr) =>
          /\ files' = Append(files, <<idir, "rad", obs.rad>>)
          /\ DOMAIN obs.rad = 0..obs.nr-1
          /\ \A r \in 0..obs.nr-1 :
               (\A ip \in 0..atm.np-1 : atm.time[ip] # obs.time[r]) =>
                 obs.rad[r] = NoRad
          /\ Cardinality({i \in 1..Len(files') : files'[i][1] = idir}) = 1]_vars

\* C28 witness: a single run of the profile task has written its file with
\* two ray paths, the second of a time the one-point atmosphere does not
\* have: its radiances are as read, those of the first are computed
C28_Witness ==
  /\ prog = "formod" /\ task = "p" /\ status = "EXIT_SUCCESS"
  /\ atm.np = 1 /\ obs.nr = 2 /\ obs.time[1] = 1
  /\ files = << <<0, "rad", obs.rad>> >>
  /\ obs.rad[1] = NoRad
  /\ obs.rad[0] = formod(ctl, SelectProfile(ctl, atm, 0))

\* all values of a profile quantity f of an atmosphere of n points are zero
AllZero(f, n) == \A ip \in 0..n-1 : f[ip] = Zero

\* C29: in the contribution task the run for emitter ig is on the input
\* atmosphere with every extinction zero and every volume mixing ratio but
\* that of ig zero (that of ig as in the input, whatever the runs before
\* did), the EXTINCT run is on the input atmosphere with every volume mixing
\* ratio zero and the extinction unchanged, all four continuum flags are off
\* in these runs, and the input atmosphere is not changed.
C29_ContributionRuns ==
  [][pc = "contrib" =>
       /\ atm' = atm
       /\ Len(files') = Len(files) + ctl.ng + 1
       /\ \A ig \in 0..ctl.ng-1 :
            LET f == files'[Len(files) + 1 + ig]
                a2 == f[3].atm
            IN  /\ f[1] = idir /\ f[2] = "rad.emitter"
                /\ f[3].ctm = <<0, 0, 0, 0>>
                /\ [a2 EXCEPT !.q = atm.q, !.k = atm.k] = atm
                /\ \A iw \in 0..ctl.nw-1 : AllZero(a2.k[iw], atm.np)
                /\ \A g2 \in 0..ctl.ng-1 :
                     IF g2 = ig THEN a2.q[g2] = atm.q[g2]
                     ELSE AllZero(a2.q[g2], atm.np)
       /\ LET f == files'[Len(files') ]
              a2 == f[3][0].atm
          IN  /\ f[1] = idir /\ f[2] = "rad.EXTINCT"
              /\ obs.nr > 0 =>
                   /\ f[3][0].ctm = <<0, 0, 0, 0>>
                   /\ [a2 EXCEPT !.q = atm.q] = atm
                   /\ \A g2 \in 0..ctl.ng-1 : AllZero(a2.q[g2], atm.np)]_vars

\* C29 witness: with two emitters the run of the second emitter had the
\* volume mixing ratio of the second emitter of the input atmosphere and a
\* zero one for the first, with the continua of the control file off
C29_Witness ==
  /\ prog = "formod" /\ task = "c" /\ status = "EXIT_SUCCESS"
  /\ ctl.ng = 2 /\ ctl_read.ctm_co2 = 1 /\ obs.nr > 0
  /\ Len(files) = 4
  /\ files[2][3].atm.q[0] = atm.q[0] /\ AllZero(files[2][3].atm.q[1], atm.np)
  /\ files[3][3].atm.q[1] = atm.q[1] /\ AllZero(files[3][3].atm.q[0], atm.np)
  /\ ~AllZero(atm.q[1], atm.np) /\ ~AllZero(atm.k[0], atm.np)
  /\ files[3][3].ctm = <<0, 0, 0, 0>>
  /\ files[4][3][0].atm.k = atm.k

\* C26 as stated: on a directory list, the main radiance file of a directory
\* is that of the directory's own atmosphere and observations under the
\* control parameters as read, whatever the directories before it were and
\* whatever the task: every radiance in it that a forward model run produced
\* was computed with the continuum flags and the ray-tracing step lengths of
\* the control file.
C26_MainFileOfControlAsRead ==
  (prog = "formod" /\ dirmode) =>
    \A i \in 1..Len(files) :
      files[i][2] = "rad" =>
        \A r \in DOMAIN files[i][3] :
          \/ files[i][3][r] = NoRad
          \/ /\ files[i][3][r].ctm = <<ctl_read.ctm_co2, ctl_read.ctm_h2o,
                                        ctl_read.ctm_n2, ctl_read.ctm_o2>>
             /\ files[i][3][r].ray = <<ctl_read.rayds, ctl_read.raydz>>

=============================================================================
